---- MODULE Spec2Model ----
(***************************************************************************)
(* Reconciliation of derived state from MQTT messages in the Frigate       *)
(* integration: the count, recognition and classification sensors of       *)
(* custom_components/frigate/sensor.py and the occupancy sensors of        *)
(* custom_components/frigate/binary_sensor.py.                             *)
(*                                                                         *)
(* Every entity owns its dictionaries and shares nothing with any other    *)
(* entity, and every handler is a @callback that runs to completion on the *)
(* event loop.  A behaviour of the model is therefore the life of ONE      *)
(* entity: Init constructs it (the variable "entity" names its class) and  *)
(* every step delivers one message to one of its handlers.                 *)
(*                                                                         *)
(* JSON values are modelled as strings.  Three of them stand for the       *)
(* Python values the handlers treat specially:                             *)
(*   NONE   a missing key or JSON null  (dict.get returns None)            *)
(*   EMPTY  the empty string            (falsy)                            *)
(*   LIST   a non-empty JSON array      (truthy, not hashable)             *)
(***************************************************************************)
EXTENDS Integers, Sequences, FiniteSets, TLC

VARIABLES entity, oc, sc, occ, so, dk, timers, latest, gl, cls, setup, last

vars == <<entity, oc, sc, occ, so, dk, timers, latest, gl, cls, setup, last>>

-----------------------------------------------------------------------------
(* Bounds of the model *)

\* longest current_attributes list carried by a lifecycle event
MaxAttrs == 2

-----------------------------------------------------------------------------
(* Python values *)

NONE == "<None>"
EMPTY == ""
LIST == "<list>"

\* bool(v) for the JSON values of the model
Truthy(v) == v \notin {NONE, EMPTY}

\* hash(v) succeeds; a list raises TypeError
Hashable(v) == v # LIST

\* dict.get(k) with the default None
DictGet(d, k) == IF k \in DOMAIN d THEN d[k] ELSE NONE

\* dict.get(k, 0)
DictGet0(d, k) == IF k \in DOMAIN d THEN d[k] ELSE 0

\* d[k] = v
DictSet(d, k, v) == [x \in (DOMAIN d) \cup {k} |-> IF x = k THEN v ELSE d[x]]

\* d.pop(k) (the remaining dictionary)
DictPop(d, k) == [x \in (DOMAIN d) \ {k} |-> d[x]]

\* the empty dict
EmptyDict == [x \in {} |-> 0]

\* max(0, n)
Max0(n) == IF n > 0 THEN n ELSE 0

\* int(payload) of the texts of IntPayloads (int strips white space);
\* ok = FALSE stands for ValueError
PyInt(p) ==
    CASE p = "0" -> [ok |-> TRUE, value |-> 0]
      [] p = "2" -> [ok |-> TRUE, value |-> 2]
      [] p = " 2 " -> [ok |-> TRUE, value |-> 2]
      [] OTHER -> [ok |-> FALSE, value |-> 0]

-----------------------------------------------------------------------------
(* Static configuration of the entities under test *)

cam_name == "front_door"
\* a zone of the camera cam_name: get_cameras_zones_and_objects yields zones
\* next to cameras, and the count sensors are constructed with either name
zone_name == "front_yard"
obj_name == "person"
\* FrigateObjectCountSensor._attribute_models
attribute_models == {"person_orientation", "person_activity"}
\* FrigateSublabelCountSensor._model_key, _sublabel_class
model_key == "person_classifier"
sublabel_class == "delivery_person"

-----------------------------------------------------------------------------
(* Messages *)

\* the tracked-object ids the backend hands out
ObjectIds == {"o1", "o2"}

Cameras == {cam_name, "other_camera"}
Labels == {obj_name, "dog"}
Models == attribute_models \cup {model_key}
Attributes == {"standing", "walking"}
Sublabels == {sublabel_class, "resident"}
EndTimes == {NONE, "1700000000"}

\* payloads of the primary count topic
IntPayloads == {"0", "2", " 2 ", "2.0", "abc", EMPTY}

\* values of the "id" field: a tracked-object id, absent, or of the wrong shape
IdValues == ObjectIds \cup {NONE, LIST}

\* values of the "attribute" and "sub_label" fields
AttributeValues == Attributes \cup {NONE, EMPTY, LIST}
SublabelValues == Sublabels \cup {NONE, EMPTY, LIST}

\* payloads that are not a JSON object: json.loads raises ValueError
\* ("not_json") or returns a number, a list or null ("not_object")
BadShapes == {"not_json", "not_object"}

UpdateMsg(t, c, m, a, sl, i) ==
    [shape |-> "object", type |-> t, camera |-> c, model |-> m,
     attribute |-> a, sub_label |-> sl, id |-> i]

BadUpdateMsg(sh) ==
    [shape |-> sh, type |-> NONE, camera |-> NONE, model |-> NONE,
     attribute |-> NONE, sub_label |-> NONE, id |-> NONE]

\* tracked_object_update messages that carry the "attribute" field
AttributeUpdateMsgs ==
    {UpdateMsg(t, c, m, a, NONE, i) :
        t \in {"classification", "face"}, c \in Cameras, m \in Models,
        a \in AttributeValues, i \in IdValues}
    \cup {BadUpdateMsg(sh) : sh \in BadShapes}

\* tracked_object_update messages that carry the "sub_label" field
SublabelUpdateMsgs ==
    {UpdateMsg(t, c, m, NONE, sl, i) :
        t \in {"classification", "face"}, c \in Cameras, m \in Models,
        sl \in SublabelValues, i \in IdValues}
    \cup {BadUpdateMsg(sh) : sh \in BadShapes}

\* one element of after.current_attributes; dict = FALSE is an element that
\* is not a JSON object
AttrItem(m, a, sl) == [dict |-> TRUE, model |-> m, attribute |-> a, sub_label |-> sl]
NonDictItem == [dict |-> FALSE, model |-> NONE, attribute |-> NONE, sub_label |-> NONE]

\* the items of the lists of at most one item
AttributeItems ==
    {AttrItem("person_orientation", a, NONE) : a \in Attributes \cup {EMPTY, LIST}}
    \cup {AttrItem("person_activity", "walking", NONE)}
    \cup {AttrItem(model_key, "standing", NONE)}
    \cup {NonDictItem}

\* the items of the longer lists
AttributeLoopItems ==
    {AttrItem("person_orientation", "standing", NONE),
     AttrItem("person_activity", "walking", NONE),
     AttrItem(model_key, "standing", NONE),
     NonDictItem}

SublabelItems ==
    {AttrItem(model_key, NONE, sl) : sl \in Sublabels \cup {EMPTY, LIST}}
    \cup {AttrItem("person_orientation", NONE, sublabel_class)}
    \cup {AttrItem("person_orientation", "standing", NONE)}
    \cup {NonDictItem}

SublabelLoopItems ==
    {AttrItem(model_key, NONE, sublabel_class),
     AttrItem(model_key, NONE, "resident"),
     AttrItem("person_orientation", NONE, sublabel_class),
     NonDictItem}

SeqsUpTo(S, n) == UNION {[1..k -> S] : k \in 0..n}

\* after.current_attributes: a list, or null ("null": iterating None raises)
AttrList(items) == [shape |-> "list", items |-> items]
NullAttrList == [shape |-> "null", items |-> <<>>]

\* after_shape: "object", "missing" (absent, null or {}: falsy) or
\* "not_object" (a truthy value without .get)
EventMsg(c, l, i, e, ca) ==
    [shape |-> "object", after_shape |-> "object", camera |-> c, label |-> l,
     id |-> i, end_time |-> e, current_attributes |-> ca]

BadEventMsg(sh, ash) ==
    [shape |-> sh, after_shape |-> ash, camera |-> NONE, label |-> NONE,
     id |-> NONE, end_time |-> NONE, current_attributes |-> AttrList(<<>>)]

\* lifecycle events: active events that pass the camera, label and id
\* filters carry lists of up to MaxAttrs items of LoopItems; events of every
\* camera, label, id and end_time carry lists of at most one item of Items
EventMsgsOver(Items, LoopItems) ==
    {EventMsg(cam_name, obj_name, i, NONE, AttrList(s)) :
        i \in ObjectIds, s \in SeqsUpTo(LoopItems, MaxAttrs)}
    \cup {EventMsg(c, l, i, e, AttrList(s)) :
        c \in Cameras, l \in Labels, i \in IdValues, e \in EndTimes,
        s \in SeqsUpTo(Items, 1)}
    \cup {EventMsg(cam_name, obj_name, i, e, NullAttrList) :
        i \in ObjectIds, e \in EndTimes}
    \cup {BadEventMsg(sh, "missing") : sh \in BadShapes}
    \cup {BadEventMsg("object", ash) : ash \in {"missing", "not_object"}}

AttributeEventMsgs == EventMsgsOver(AttributeItems, AttributeLoopItems)
SublabelEventMsgs == EventMsgsOver(SublabelItems, SublabelLoopItems)

-----------------------------------------------------------------------------------------------------------------------------------------------------
(* Handler results: the entity after the handler, the number of            *)
(* async_write_ha_state calls, whether an exception left the handler, and  *)
(* the statement at which the handler ended:                               *)
(*   "decode"   json.loads / int raised ValueError, caught by the handler  *)
(*   "after"    the event has no (or an empty) "after"                     *)
(*   "type", "camera", "label", "model", "value", "id"  the failed filter  *)
(*   "untracked"  end of track of an id that is not in the tracker         *)
(*   "no_record"  the loop over current_attributes found nothing to apply  *)
(*   "cleared", "set", "count"  the end of a branch that notifies          *)
(*   "raise"    an exception the handler does not catch                    *)

Result(s, n, r, x) == [s |-> s, notified |-> n, raised |-> r, exit |-> x]
Ignored(s, x) == Result(s, 0, FALSE, x)
Notified(s, x) == Result(s, 1, FALSE, x)
Raised(s) == Result(s, 0, TRUE, "raise")

-----------------------------------------------------------------------------
(* FrigateObjectCountSensor *)

ObjectCountInit(name) ==
    [cam_name |-> name, state |-> 0, attribute_counts |-> EmptyDict,
     tracked_object_attributes |-> EmptyDict]

\* variant: a new count starts the attribute tracking afresh
ObjectCount_state_message_received_ResetTracking(s, payload) ==
    IF ~PyInt(payload).ok
    THEN Ignored(s, "decode")
    ELSE Notified([s EXCEPT !.state = PyInt(payload).value,
                            !.tracked_object_attributes = EmptyDict,
                            !.attribute_counts = EmptyDict], "count")

\* _state_message_received
ObjectCount_state_message_received(s, payload) ==
    IF ~PyInt(payload).ok
    THEN Ignored(s, "decode")
    ELSE Notified([s EXCEPT !.state = PyInt(payload).value], "count")

\* variant: the count of the value the object held before is not decremented
ObjectCount_attribute_update_NoDecrement(s, object_id, attribute) ==
    IF ~Hashable(object_id) THEN Raised(s)
    ELSE
    LET tracked1 == DictSet(s.tracked_object_attributes, object_id, attribute)
    IN  IF ~Hashable(attribute)
        THEN Raised([s EXCEPT !.tracked_object_attributes = tracked1])
        ELSE Notified([s EXCEPT
                          !.attribute_counts =
                              DictSet(@, attribute, DictGet0(@, attribute) + 1),
                          !.tracked_object_attributes = tracked1],
                      "set")

\* variant: the tracker is replaced by a dictionary holding only this object
ObjectCount_attribute_update_ForgetOthers(s, object_id, attribute) ==
    IF ~Hashable(object_id) THEN Raised(s)
    ELSE
    LET old_attribute == DictGet(s.tracked_object_attributes, object_id)
    IN  IF Truthy(old_attribute) /\ ~Hashable(old_attribute) THEN Raised(s)
        ELSE
        LET counts1 ==
                IF Truthy(old_attribute) /\ old_attribute \in DOMAIN s.attribute_counts
                THEN DictSet(s.attribute_counts, old_attribute,
                             Max0(s.attribute_counts[old_attribute] - 1))
                ELSE s.attribute_counts
            tracked1 == DictSet(EmptyDict, object_id, attribute)
        IN  IF ~Hashable(attribute)
            THEN Raised([s EXCEPT !.attribute_counts = counts1,
                                  !.tracked_object_attributes = tracked1])
            ELSE Notified([s EXCEPT
                              !.attribute_counts =
                                  DictSet(counts1, attribute, DictGet0(counts1, attribute) + 1),
                              !.tracked_object_attributes = tracked1],
                          "set")

\* the update block of _attribute_message_received
ObjectCount_attribute_update(s, object_id, attribute) ==
    IF ~Hashable(object_id) THEN Raised(s)
    ELSE
    LET old_attribute == DictGet(s.tracked_object_attributes, object_id)
    IN  IF Truthy(old_attribute) /\ ~Hashable(old_attribute) THEN Raised(s)
        ELSE
        LET counts1 ==
                IF Truthy(old_attribute) /\ old_attribute \in DOMAIN s.attribute_counts
                THEN DictSet(s.attribute_counts, old_attribute,
                             Max0(s.attribute_counts[old_attribute] - 1))
                ELSE s.attribute_counts
            tracked1 == DictSet(s.tracked_object_attributes, object_id, attribute)
        IN  IF ~Hashable(attribute)
            THEN Raised([s EXCEPT !.attribute_counts = counts1,
                                  !.tracked_object_attributes = tracked1])
            ELSE Notified([s EXCEPT
                              !.attribute_counts =
                                  DictSet(counts1, attribute, DictGet0(counts1, attribute) + 1),
                              !.tracked_object_attributes = tracked1],
                          "set")

\* _attribute_message_received
ObjectCount_attribute_message_received(s, msg) ==
    IF msg.shape = "not_json" THEN Ignored(s, "decode")
    ELSE IF msg.shape = "not_object" THEN Raised(s)
    ELSE IF msg.type # "classification" THEN Ignored(s, "type")
    ELSE IF msg.camera # s.cam_name THEN Ignored(s, "camera")
    ELSE IF msg.model \notin attribute_models THEN Ignored(s, "model")
    ELSE IF ~Truthy(msg.attribute) THEN Ignored(s, "value")
    ELSE IF ~Truthy(msg.id) THEN Ignored(s, "id")
    ELSE ObjectCount_attribute_update(s, msg.id, msg.attribute)

\* variant: the object is popped but the count of its value is kept
ObjectCount_event_end_KeepCount(s, object_id) ==
    IF ~Hashable(object_id) THEN Raised(s)
    ELSE IF object_id \notin DOMAIN s.tracked_object_attributes
    THEN Ignored(s, "untracked")
    ELSE Notified([s EXCEPT !.tracked_object_attributes = DictPop(@, object_id)],
                  "cleared")

\* variant: the notification is written whether or not the id was tracked
ObjectCount_event_end_AlwaysNotify(s, object_id) ==
    IF ~Hashable(object_id) THEN Raised(s)
    ELSE IF object_id \notin DOMAIN s.tracked_object_attributes
    THEN Notified(s, "untracked")
    ELSE
    LET old_attribute == s.tracked_object_attributes[object_id]
        popped == [s EXCEPT !.tracked_object_attributes = DictPop(@, object_id)]
    IN  IF ~Hashable(old_attribute) THEN Raised(popped)
        ELSE IF old_attribute \in DOMAIN s.attribute_counts
        THEN Notified([popped EXCEPT !.attribute_counts =
                          DictSet(@, old_attribute, Max0(@[old_attribute] - 1))],
                      "cleared")
        ELSE Notified(popped, "cleared")

\* the end_time branch of _event_message_received
ObjectCount_event_end(s, object_id) ==
    IF ~Hashable(object_id) THEN Raised(s)
    ELSE IF object_id \notin DOMAIN s.tracked_object_attributes
    THEN Ignored(s, "untracked")
    ELSE
    LET old_attribute == s.tracked_object_attributes[object_id]
        popped == [s EXCEPT !.tracked_object_attributes = DictPop(@, object_id)]
    IN  IF ~Hashable(old_attribute) THEN Raised(popped)
        ELSE IF old_attribute \in DOMAIN s.attribute_counts
        THEN Notified([popped EXCEPT !.attribute_counts =
                          DictSet(@, old_attribute, Max0(@[old_attribute] - 1))],
                      "cleared")
        ELSE Notified(popped, "cleared")

\* variant: the count of the value the object held before is not decremented
ObjectCount_event_update_NoDecrement(s, object_id, attribute) ==
    IF ~Hashable(object_id) THEN Raised(s)
    ELSE
    LET tracked1 == DictSet(s.tracked_object_attributes, object_id, attribute)
    IN  IF ~Hashable(attribute)
        THEN Raised([s EXCEPT !.tracked_object_attributes = tracked1])
        ELSE Notified([s EXCEPT
                          !.attribute_counts =
                              DictSet(@, attribute, DictGet0(@, attribute) + 1),
                          !.tracked_object_attributes = tracked1],
                      "set")

\* the update block inside the loop of _event_message_received
ObjectCount_event_update(s, object_id, attribute) ==
    IF ~Hashable(object_id) THEN Raised(s)
    ELSE
    LET old_attribute == DictGet(s.tracked_object_attributes, object_id)
    IN  IF Truthy(old_attribute) /\ ~Hashable(old_attribute) THEN Raised(s)
        ELSE
        LET counts1 ==
                IF Truthy(old_attribute) /\ old_attribute \in DOMAIN s.attribute_counts
                THEN DictSet(s.attribute_counts, old_attribute,
                             Max0(s.attribute_counts[old_attribute] - 1))
                ELSE s.attribute_counts
            tracked1 == DictSet(s.tracked_object_attributes, object_id, attribute)
        IN  IF ~Hashable(attribute)
            THEN Raised([s EXCEPT !.attribute_counts = counts1,
                                  !.tracked_object_attributes = tracked1])
            ELSE Notified([s EXCEPT
                              !.attribute_counts =
                                  DictSet(counts1, attribute, DictGet0(counts1, attribute) + 1),
                              !.tracked_object_attributes = tracked1],
                          "set")

\* the loop over current_attributes of _event_message_received, from item i
RECURSIVE ObjectCount_event_loop(_, _, _, _)
ObjectCount_event_loop(s, object_id, items, i) ==
    IF i > Len(items) THEN Ignored(s, "no_record")
    ELSE IF items[i].dict
            /\ items[i].model \in attribute_models
            /\ Truthy(items[i].attribute)
    THEN ObjectCount_event_update(s, object_id, items[i].attribute)
    ELSE ObjectCount_event_loop(s, object_id, items, i + 1)

\* variant: the camera filter is missing
ObjectCount_event_message_received_NoCameraFilter(s, msg) ==
    IF msg.shape = "not_json" THEN Ignored(s, "decode")
    ELSE IF msg.shape = "not_object" THEN Raised(s)
    ELSE IF msg.after_shape = "missing" THEN Ignored(s, "after")
    ELSE IF msg.after_shape = "not_object" THEN Raised(s)
    ELSE IF msg.label # obj_name THEN Ignored(s, "label")
    ELSE IF ~Truthy(msg.id) THEN Ignored(s, "id")
    ELSE IF msg.end_time # NONE THEN ObjectCount_event_end(s, msg.id)
    ELSE IF msg.current_attributes.shape = "null" THEN Raised(s)
    ELSE ObjectCount_event_loop(s, msg.id, msg.current_attributes.items, 1)

\* variant: the records of current_attributes are looked at before end_time
ObjectCount_event_message_received_AttributesFirst(s, msg) ==
    IF msg.shape = "not_json" THEN Ignored(s, "decode")
    ELSE IF msg.shape = "not_object" THEN Raised(s)
    ELSE IF msg.after_shape = "missing" THEN Ignored(s, "after")
    ELSE IF msg.after_shape = "not_object" THEN Raised(s)
    ELSE IF msg.camera # s.cam_name THEN Ignored(s, "camera")
    ELSE IF msg.label # obj_name THEN Ignored(s, "label")
    ELSE IF ~Truthy(msg.id) THEN Ignored(s, "id")
    ELSE IF msg.current_attributes.shape = "null" THEN Raised(s)
    ELSE IF msg.end_time # NONE
            /\ ObjectCount_event_loop(s, msg.id, msg.current_attributes.items, 1).exit
                   = "no_record"
    THEN ObjectCount_event_end(s, msg.id)
    ELSE ObjectCount_event_loop(s, msg.id, msg.current_attributes.items, 1)

\* _event_message_received
ObjectCount_event_message_received(s, msg) ==
    IF msg.shape = "not_json" THEN Ignored(s, "decode")
    ELSE IF msg.shape = "not_object" THEN Raised(s)
    ELSE IF msg.after_shape = "missing" THEN Ignored(s, "after")
    ELSE IF msg.after_shape = "not_object" THEN Raised(s)
    ELSE IF msg.camera # s.cam_name THEN Ignored(s, "camera")
    ELSE IF msg.label # obj_name THEN Ignored(s, "label")
    ELSE IF ~Truthy(msg.id) THEN Ignored(s, "id")
    ELSE IF msg.end_time # NONE THEN ObjectCount_event_end(s, msg.id)
    ELSE IF msg.current_attributes.shape = "null" THEN Raised(s)
    ELSE ObjectCount_event_loop(s, msg.id, msg.current_attributes.items, 1)

-----------------------------------------------------------------------------
(* FrigateSublabelCountSensor *)

SublabelCountInit(name) ==
    [cam_name |-> name, state |-> 0, tracked_objects |-> EmptyDict]

\* sum(1 for sl in tracked.values() if sl == self._sublabel_class)
CountSublabel(tracked) ==
    Cardinality({i \in DOMAIN tracked : tracked[i] = sublabel_class})

\* variant: the count is taken before the tracker is updated
SublabelCount_state_update_StaleCount(s, object_id, sublabel) ==
    IF ~Hashable(object_id) THEN Raised(s)
    ELSE
    LET tracked1 == DictSet(s.tracked_objects, object_id, sublabel)
    IN  Notified([s EXCEPT !.state = CountSublabel(s.tracked_objects),
                            !.tracked_objects = tracked1],
                 "set")

\* variant: an object classified as another sublabel is dropped from the tracker
SublabelCount_state_update_DiscardOther(s, object_id, sublabel) ==
    IF ~Hashable(object_id) THEN Raised(s)
    ELSE
    LET tracked1 == IF sublabel = sublabel_class
                    THEN DictSet(s.tracked_objects, object_id, sublabel)
                    ELSE DictPop(s.tracked_objects, object_id)
    IN  Notified([s EXCEPT !.state = CountSublabel(tracked1),
                            !.tracked_objects = tracked1],
                 "set")

\* the update block of _state_message_received
SublabelCount_state_update(s, object_id, sublabel) ==
    IF ~Hashable(object_id) THEN Raised(s)
    ELSE
    LET tracked1 == DictSet(s.tracked_objects, object_id, sublabel)
    IN  Notified([s EXCEPT !.state = CountSublabel(tracked1),
                            !.tracked_objects = tracked1],
                 "set")

\* _state_message_received
SublabelCount_state_message_received(s, msg) ==
    IF msg.shape = "not_json" THEN Ignored(s, "decode")
    ELSE IF msg.shape = "not_object" THEN Raised(s)
    ELSE IF msg.type # "classification" THEN Ignored(s, "type")
    ELSE IF msg.camera # s.cam_name THEN Ignored(s, "camera")
    ELSE IF msg.model # model_key THEN Ignored(s, "model")
    ELSE IF ~Truthy(msg.sub_label) THEN Ignored(s, "value")
    ELSE IF ~Truthy(msg.id) THEN Ignored(s, "id")
    ELSE SublabelCount_state_update(s, msg.id, msg.sub_label)

\* variant: the state is not recounted after the removal
SublabelCount_event_end_KeepState(s, object_id) ==
    IF ~Hashable(object_id) THEN Raised(s)
    ELSE IF object_id \notin DOMAIN s.tracked_objects THEN Ignored(s, "untracked")
    ELSE
    LET tracked1 == DictPop(s.tracked_objects, object_id)
    IN  Notified([s EXCEPT !.tracked_objects = tracked1], "cleared")

\* the end_time branch of _event_message_received
SublabelCount_event_end(s, object_id) ==
    IF ~Hashable(object_id) THEN Raised(s)
    ELSE IF object_id \notin DOMAIN s.tracked_objects THEN Ignored(s, "untracked")
    ELSE
    LET tracked1 == DictPop(s.tracked_objects, object_id)
    IN  Notified([s EXCEPT !.state = CountSublabel(tracked1),
                            !.tracked_objects = tracked1],
                 "cleared")

\* the update block inside the loop of _event_message_received
SublabelCount_event_update(s, object_id, sublabel) ==
    IF ~Hashable(object_id) THEN Raised(s)
    ELSE
    LET tracked1 == DictSet(s.tracked_objects, object_id, sublabel)
    IN  Notified([s EXCEPT !.state = CountSublabel(tracked1),
                            !.tracked_objects = tracked1],
                 "set")

\* the loop over current_attributes of _event_message_received, from item i
RECURSIVE SublabelCount_event_loop(_, _, _, _)
SublabelCount_event_loop(s, object_id, items, i) ==
    IF i > Len(items) THEN Ignored(s, "no_record")
    ELSE IF items[i].dict
            /\ items[i].model = model_key
            /\ Truthy(items[i].sub_label)
    THEN SublabelCount_event_update(s, object_id, items[i].sub_label)
    ELSE SublabelCount_event_loop(s, object_id, items, i + 1)

\* variant: the label filter is missing
SublabelCount_event_message_received_NoLabelFilter(s, msg) ==
    IF msg.shape = "not_json" THEN Ignored(s, "decode")
    ELSE IF msg.shape = "not_object" THEN Raised(s)
    ELSE IF msg.after_shape = "missing" THEN Ignored(s, "after")
    ELSE IF msg.after_shape = "not_object" THEN Raised(s)
    ELSE IF msg.camera # s.cam_name THEN Ignored(s, "camera")
    ELSE IF ~Truthy(msg.id) THEN Ignored(s, "id")
    ELSE IF msg.end_time # NONE THEN SublabelCount_event_end(s, msg.id)
    ELSE IF msg.current_attributes.shape = "null" THEN Raised(s)
    ELSE SublabelCount_event_loop(s, msg.id, msg.current_attributes.items, 1)

\* _event_message_received
SublabelCount_event_message_received(s, msg) ==
    IF msg.shape = "not_json" THEN Ignored(s, "decode")
    ELSE IF msg.shape = "not_object" THEN Raised(s)
    ELSE IF msg.after_shape = "missing" THEN Ignored(s, "after")
    ELSE IF msg.after_shape = "not_object" THEN Raised(s)
    ELSE IF msg.camera # s.cam_name THEN Ignored(s, "camera")
    ELSE IF msg.label # obj_name THEN Ignored(s, "label")
    ELSE IF ~Truthy(msg.id) THEN Ignored(s, "id")
    ELSE IF msg.end_time # NONE THEN SublabelCount_event_end(s, msg.id)
    ELSE IF msg.current_attributes.shape = "null" THEN Raised(s)
    ELSE SublabelCount_event_loop(s, msg.id, msg.current_attributes.items, 1)

-----------------------------------------------------------------------------
(* FrigateObjectOccupancySensor (binary_sensor.py) *)

ObjectOccupancyInit(name) ==
    [cam_name |-> name, is_on |-> FALSE, attribute_counts |-> EmptyDict,
     tracked_object_attributes |-> EmptyDict]

\* _state_message_received: a payload that is no integer turns the sensor
\* off, and the state is written in either case
ObjectOccupancy_state_message_received(s, payload) ==
    IF ~PyInt(payload).ok
    THEN Notified([s EXCEPT !.is_on = FALSE], "decode")
    ELSE Notified([s EXCEPT !.is_on = PyInt(payload).value > 0], "count")

\* variant: the block that decrements was copied for the new value and its
\* sign was kept (counts.get(attribute, 0) - 1, without the clamp)
ObjectOccupancy_attribute_update_CopiedDecrement(s, object_id, attribute) ==
    IF ~Hashable(object_id) THEN Raised(s)
    ELSE
    LET old_attribute == DictGet(s.tracked_object_attributes, object_id)
    IN  IF Truthy(old_attribute) /\ ~Hashable(old_attribute) THEN Raised(s)
        ELSE
        LET counts1 ==
                IF Truthy(old_attribute) /\ old_attribute \in DOMAIN s.attribute_counts
                THEN DictSet(s.attribute_counts, old_attribute,
                             Max0(s.attribute_counts[old_attribute] - 1))
                ELSE s.attribute_counts
            tracked1 == DictSet(s.tracked_object_attributes, object_id, attribute)
        IN  IF ~Hashable(attribute)
            THEN Raised([s EXCEPT !.attribute_counts = counts1,
                                  !.tracked_object_attributes = tracked1])
            ELSE Notified([s EXCEPT
                              !.attribute_counts =
                                  DictSet(counts1, attribute, DictGet0(counts1, attribute) - 1),
                              !.tracked_object_attributes = tracked1],
                          "set")

\* the update block of _attribute_message_received
ObjectOccupancy_attribute_update(s, object_id, attribute) ==
    IF ~Hashable(object_id) THEN Raised(s)
    ELSE
    LET old_attribute == DictGet(s.tracked_object_attributes, object_id)
    IN  IF Truthy(old_attribute) /\ ~Hashable(old_attribute) THEN Raised(s)
        ELSE
        LET counts1 ==
                IF Truthy(old_attribute) /\ old_attribute \in DOMAIN s.attribute_counts
                THEN DictSet(s.attribute_counts, old_attribute,
                             Max0(s.attribute_counts[old_attribute] - 1))
                ELSE s.attribute_counts
            tracked1 == DictSet(s.tracked_object_attributes, object_id, attribute)
        IN  IF ~Hashable(attribute)
            THEN Raised([s EXCEPT !.attribute_counts = counts1,
                                  !.tracked_object_attributes = tracked1])
            ELSE Notified([s EXCEPT
                              !.attribute_counts =
                                  DictSet(counts1, attribute, DictGet0(counts1, attribute) + 1),
                              !.tracked_object_attributes = tracked1],
                          "set")

\* _attribute_message_received
ObjectOccupancy_attribute_message_received(s, msg) ==
    IF msg.shape = "not_json" THEN Ignored(s, "decode")
    ELSE IF msg.shape = "not_object" THEN Raised(s)
    ELSE IF msg.type # "classification" THEN Ignored(s, "type")
    ELSE IF msg.camera # s.cam_name THEN Ignored(s, "camera")
    ELSE IF msg.model \notin attribute_models THEN Ignored(s, "model")
    ELSE IF ~Truthy(msg.attribute) THEN Ignored(s, "value")
    ELSE IF ~Truthy(msg.id) THEN Ignored(s, "id")
    ELSE ObjectOccupancy_attribute_update(s, msg.id, msg.attribute)

-----------------------------------------------------------------------------
(* FrigateSublabelOccupancySensor (binary_sensor.py) *)

\* _tracked_objects is a set of object ids
SublabelOccupancyInit(name) ==
    [cam_name |-> name, is_on |-> FALSE, tracked_objects |-> {}]

\* variant: an object classified as another sublabel stays in the set
SublabelOccupancy_state_update_KeepOther(s, object_id, sublabel) ==
    IF ~Hashable(object_id) THEN Raised(s)
    ELSE
    LET tracked1 == IF sublabel = sublabel_class
                    THEN s.tracked_objects \cup {object_id}
                    ELSE s.tracked_objects
    IN  Notified([s EXCEPT !.tracked_objects = tracked1,
                            !.is_on = Cardinality(tracked1) > 0],
                 "set")

\* the update block of _state_message_received; set.add and set.discard hash
\* the object id
SublabelOccupancy_state_update(s, object_id, sublabel) ==
    IF ~Hashable(object_id) THEN Raised(s)
    ELSE
    LET tracked1 == IF sublabel = sublabel_class
                    THEN s.tracked_objects \cup {object_id}
                    ELSE s.tracked_objects \ {object_id}
    IN  Notified([s EXCEPT !.tracked_objects = tracked1,
                            !.is_on = Cardinality(tracked1) > 0],
                 "set")

\* _state_message_received
SublabelOccupancy_state_message_received(s, msg) ==
    IF msg.shape = "not_json" THEN Ignored(s, "decode")
    ELSE IF msg.shape = "not_object" THEN Raised(s)
    ELSE IF msg.type # "classification" THEN Ignored(s, "type")
    ELSE IF msg.camera # s.cam_name THEN Ignored(s, "camera")
    ELSE IF msg.model # model_key THEN Ignored(s, "model")
    ELSE IF ~Truthy(msg.sub_label) THEN Ignored(s, "value")
    ELSE IF ~Truthy(msg.id) THEN Ignored(s, "id")
    ELSE SublabelOccupancy_state_update(s, msg.id, msg.sub_label)

\* a message on <prefix>/events: neither binary occupancy sensor subscribes
\* to the topic (their topics are the count topic and tracked_object_update),
\* so the event reaches no handler of the entity
ObjectOccupancy_event_delivery(s, msg) == Ignored(s, "unsubscribed")
SublabelOccupancy_event_delivery(s, msg) == Ignored(s, "unsubscribed")

-----------------------------------------------------------------------------
(* Recognition messages on <prefix>/tracked_object_update, for the handlers *)
(* that tell an absent key from a null one (data["name"], "sub_label" in    *)
(* data): ABSENT is a key the payload does not have, NONE is JSON null.     *)

ABSENT == "<absent>"

\* data.get(key)
Get(v) == IF v = ABSENT THEN NONE ELSE v

\* key in data
Has(v) == v # ABSENT

\* str(v)
PyStr(v) ==
    CASE v = NONE -> "None"
      [] v = LIST -> "['x']"
      [] OTHER -> v

\* text.replace("_", " ") of the texts of the model
ReplaceUnderscores(text) ==
    CASE text = "delivery_person" -> "delivery person"
      [] text = "front_door" -> "front door"
      [] text = "other_camera" -> "other camera"
      [] OTHER -> text

\* text.title() of the texts of the model
Title(text) ==
    CASE text = "delivery person" -> "Delivery Person"
      [] text = "delivery_person" -> "Delivery_Person"
      [] text = "resident" -> "Resident"
      [] text = "none" -> "None"
      [] text = "standing" -> "Standing"
      [] text = "family car" -> "Family Car"
      [] text = "front door" -> "Front Door"
      [] text = "other camera" -> "Other Camera"
      [] text = "['x']" -> "['X']"
      [] OTHER -> text

\* current_zones: absent, null, or a list of zone names (a set here: the
\* handlers only test membership)
ZonesAbsent == [shape |-> "absent", zones |-> {}]
ZonesNull == [shape |-> "null", zones |-> {}]
ZoneList(zones) == [shape |-> "list", zones |-> zones]
ZoneLists ==
    {ZoneList(zones) : zones \in {{}, {zone_name}, {"driveway"}, {zone_name, "driveway"}}}

RecogMsg(t, c, z, n, pl, m, sl, a) ==
    [shape |-> "object", type |-> t, camera |-> c, current_zones |-> z,
     name |-> n, plate |-> pl, model |-> m, sub_label |-> sl, attribute |-> a]

BadRecogMsg(sh) ==
    [shape |-> sh, type |-> ABSENT, camera |-> ABSENT, current_zones |-> ZonesAbsent,
     name |-> ABSENT, plate |-> ABSENT, model |-> ABSENT, sub_label |-> ABSENT,
     attribute |-> ABSENT]

\* face recognition updates
FaceNames == {"alice", "bob"}
FaceUpdateMsgs ==
    {RecogMsg(t, c, ZonesAbsent, n, ABSENT, ABSENT, ABSENT, ABSENT) :
        t \in {"face", "lpr"}, c \in Cameras \cup {ABSENT, EMPTY},
        n \in FaceNames \cup {ABSENT, NONE}}
    \cup {BadRecogMsg(sh) : sh \in BadShapes}

\* licence plate updates: "name" for a known plate, "plate" for the number
PlateNames == {"family car"}
PlateNumbers == {"ABC123"}
PlateUpdateMsgs ==
    {RecogMsg(t, c, ZonesAbsent, n, pl, ABSENT, ABSENT, ABSENT) :
        t \in {"lpr", "face"}, c \in Cameras \cup {ABSENT},
        n \in PlateNames \cup {ABSENT, NONE, EMPTY},
        pl \in PlateNumbers \cup {ABSENT, NONE}}
    \cup {BadRecogMsg(sh) : sh \in BadShapes}

-----------------------------------------------------------------------------
(* Scheduled state decay.  async_call_later(hass, 60 s, callback) adds a    *)
(* pending timer to the event loop and returns the callable that cancels    *)
(* it.  "timers" maps every pending timer to the seconds left until it is   *)
(* due; _clear_state_callable is modelled as the set of timers the stored   *)
(* callable cancels: {} for None, {t} for the callable of timer t.          *)
(* A handler works on s = [self |-> the entity, timers |-> the timers].     *)

\* datetime.timedelta(seconds=60)
DecayDelay == 60

\* the idle sentinel written by the decay callbacks
IdleSentinel == "None"

NoTimers == [x \in {} |-> 0]

\* async_call_later: the new pending timer and the timers with it
async_call_later(pending, delay) ==
    LET t == CHOOSE n \in 1..(Cardinality(DOMAIN pending) + 1) : n \notin DOMAIN pending
    IN  [handle |-> {t},
         timers |-> [x \in DOMAIN pending \cup {t} |-> IF x = t THEN delay ELSE pending[x]]]

\* calling the callable returned by async_call_later (a no-op when the timer
\* has fired or was cancelled before)
Cancel(pending, handle) == [x \in DOMAIN pending \ handle |-> pending[x]]

-----------------------------------------------------------------------------
(* FrigateRecognizedFaceSensor *)

RecognizedFaceInit ==
    [cam_name |-> cam_name, state |-> "Unknown", clear_state_callable |-> {}]

\* variant: the pending callback is not cancelled before the new one is
\* scheduled
RecognizedFace_observe_NoCancel(s, name) ==
    LET sched == async_call_later(s.timers, DecayDelay)
    IN  Notified([self |-> [s.self EXCEPT !.state = name,
                                          !.clear_state_callable = sched.handle],
                  timers |-> sched.timers],
                 "set")

\* variant: the callback is scheduled but the value is not stored
RecognizedFace_observe_KeepValue(s, name) ==
    LET cancelled == Cancel(s.timers, s.self.clear_state_callable)
        sched == async_call_later(cancelled, DecayDelay)
    IN  Notified([self |-> [s.self EXCEPT !.clear_state_callable = sched.handle],
                  timers |-> sched.timers],
                 "set")

\* the accepting part of _state_message_received: store the name, write the
\* state, cancel the pending callback and schedule a new one
RecognizedFace_observe(s, name) ==
    LET cancelled == IF s.self.clear_state_callable # {}
                     THEN Cancel(s.timers, s.self.clear_state_callable)
                     ELSE s.timers
        sched == async_call_later(cancelled, DecayDelay)
    IN  Notified([self |-> [s.self EXCEPT !.state = name,
                                          !.clear_state_callable = sched.handle],
                  timers |-> sched.timers],
                 "set")

\* variant: the pending callback is cancelled before the camera filter
RecognizedFace_state_message_received_CancelFirst(s, msg) ==
    IF msg.shape = "not_json" THEN Ignored(s, "decode")
    ELSE IF msg.shape = "not_object" THEN Raised(s)
    ELSE IF Get(msg.type) # "face" THEN Ignored(s, "type")
    ELSE IF Get(msg.camera) # s.self.cam_name
    THEN Ignored([self |-> [s.self EXCEPT !.clear_state_callable = {}],
                  timers |-> Cancel(s.timers, s.self.clear_state_callable)],
                 "camera")
    ELSE IF ~Has(msg.name) THEN Raised(s)
    ELSE RecognizedFace_observe(s, msg.name)

\* _state_message_received; data["name"] raises KeyError, which the handler
\* does not catch
RecognizedFace_state_message_received(s, msg) ==
    IF msg.shape = "not_json" THEN Ignored(s, "decode")
    ELSE IF msg.shape = "not_object" THEN Raised(s)
    ELSE IF Get(msg.type) # "face" THEN Ignored(s, "type")
    ELSE IF Get(msg.camera) # s.self.cam_name THEN Ignored(s, "camera")
    ELSE IF ~Has(msg.name) THEN Raised(s)
    ELSE RecognizedFace_observe(s, msg.name)

\* variant: the callback leaves the stored callable in place
clear_recognized_face_KeepHandle(s) ==
    Notified([self |-> [s.self EXCEPT !.state = IdleSentinel],
              timers |-> s.timers],
             "decay")

\* clear_recognized_face
clear_recognized_face(s) ==
    Notified([self |-> [s.self EXCEPT !.state = IdleSentinel,
                                      !.clear_state_callable = {}],
              timers |-> s.timers],
             "decay")

-----------------------------------------------------------------------------
(* FrigateRecognizedPlateSensor *)

RecognizedPlateInit ==
    [cam_name |-> cam_name, state |-> "Unknown", clear_state_callable |-> {}]

\* the accepting part of _state_message_received
RecognizedPlate_observe(s, text) ==
    LET cancelled == IF s.self.clear_state_callable # {}
                     THEN Cancel(s.timers, s.self.clear_state_callable)
                     ELSE s.timers
        sched == async_call_later(cancelled, DecayDelay)
    IN  Notified([self |-> [s.self EXCEPT !.state = text,
                                          !.clear_state_callable = sched.handle],
                  timers |-> sched.timers],
                 "set")

\* _state_message_received; data["plate"] raises KeyError, which the handler
\* does not catch
RecognizedPlate_state_message_received(s, msg) ==
    IF msg.shape = "not_json" THEN Ignored(s, "decode")
    ELSE IF msg.shape = "not_object" THEN Raised(s)
    ELSE IF Get(msg.type) # "lpr" THEN Ignored(s, "type")
    ELSE IF Get(msg.camera) # s.self.cam_name THEN Ignored(s, "camera")
    ELSE IF Truthy(Get(msg.name))
    THEN RecognizedPlate_observe(s, Title(PyStr(msg.name)))
    ELSE IF ~Has(msg.plate) THEN Raised(s)
    ELSE RecognizedPlate_observe(s, PyStr(msg.plate))

\* clear_recognized_plate
clear_recognized_plate(s) ==
    Notified([self |-> [s.self EXCEPT !.state = IdleSentinel,
                                      !.clear_state_callable = {}],
              timers |-> s.timers],
             "decay")

-----------------------------------------------------------------------------
(* FrigateObjectClassificationSensor *)

\* classification updates for the object classification sensors
ClassUpdateMsgs ==
    {RecogMsg(t, c, z, ABSENT, ABSENT, m, sl, a) :
        t \in {"classification", "face"}, c \in Cameras,
        z \in {ZonesAbsent, ZonesNull, ZoneList({zone_name}), ZoneList({"driveway"})},
        m \in {model_key, "person_orientation"},
        sl \in {ABSENT, "delivery_person"}, a \in {ABSENT, "standing"}}
    \cup {RecogMsg("classification", cam_name, z, ABSENT, ABSENT, model_key, sl, ABSENT) :
            z \in {ZonesAbsent, ZonesNull} \cup ZoneLists,
            sl \in {NONE, "resident", "none"}}
    \cup {RecogMsg("classification", c, ZonesAbsent, ABSENT, ABSENT, model_key, sl, ABSENT) :
            c \in {ABSENT, EMPTY}, sl \in {"delivery_person", "resident"}}
    \cup {BadRecogMsg(sh) : sh \in BadShapes}

\* one element of after.current_attributes, with keys that may be absent
ClassItem(m, sl, a) == [dict |-> TRUE, model |-> m, sub_label |-> sl, attribute |-> a]
NonDictClassItem == [dict |-> FALSE, model |-> ABSENT, sub_label |-> ABSENT, attribute |-> ABSENT]

ClassItems ==
    {ClassItem(model_key, "delivery_person", ABSENT),
     ClassItem(model_key, ABSENT, "standing"),
     ClassItem(model_key, ABSENT, ABSENT),
     ClassItem("person_orientation", "resident", ABSENT),
     NonDictClassItem}

ClassLoopItems ==
    {ClassItem(model_key, "delivery_person", ABSENT),
     ClassItem(model_key, ABSENT, ABSENT),
     ClassItem("person_orientation", ABSENT, "standing")}

\* lifecycle events as the object classification sensor receives them:
\* camera, current_zones, label, end_time and current_attributes of "after"
ClassEventMsg(c, z, l, e, ca) ==
    [shape |-> "object", after_shape |-> "object", camera |-> c,
     current_zones |-> z, label |-> l, end_time |-> e,
     current_attributes |-> ca]

BadClassEventMsg(sh, ash) ==
    [shape |-> sh, after_shape |-> ash, camera |-> ABSENT,
     current_zones |-> ZonesAbsent, label |-> ABSENT, end_time |-> ABSENT,
     current_attributes |-> AttrList(<<>>)]

ClassEventMsgs ==
    {ClassEventMsg(cam_name, z, obj_name, e, AttrList(items)) :
        z \in {ZonesAbsent, ZoneList({zone_name})}, e \in EndTimes,
        items \in SeqsUpTo(ClassLoopItems, MaxAttrs)}
    \cup {ClassEventMsg(c, z, l, e, AttrList(items)) :
            c \in Cameras, z \in {ZonesAbsent, ZonesNull} \cup ZoneLists,
            l \in Labels, e \in EndTimes,
            items \in SeqsUpTo(ClassItems, 1)}
    \cup {ClassEventMsg(cam_name, ZoneList({zone_name}), obj_name, NONE, NullAttrList)}
    \cup {BadClassEventMsg(sh, "missing") : sh \in BadShapes}
    \cup {BadClassEventMsg("object", ash) : ash \in {"missing", "not_object"}}

\* the sensor of a camera has actual_cam_name = cam_or_zone_name; the sensor
\* of a zone has the zone's camera as actual_cam_name
ObjectClassificationInit(cam_or_zone_name, actual_cam_name) ==
    [cam_or_zone_name |-> cam_or_zone_name,
     actual_cam_name |-> IF actual_cam_name # NONE THEN actual_cam_name
                         ELSE cam_or_zone_name,
     state |-> "Unknown", clear_state_callable |-> {}]

\* str(value).replace("_", " ").title()
ClassText(value) == Title(ReplaceUnderscores(PyStr(value)))

\* the accepting part of _state_message_received
ObjectClassification_state_observe(s, value) ==
    LET cancelled == IF s.self.clear_state_callable # {}
                     THEN Cancel(s.timers, s.self.clear_state_callable)
                     ELSE s.timers
        sched == async_call_later(cancelled, DecayDelay)
    IN  Notified([self |-> [s.self EXCEPT !.state = ClassText(value),
                                          !.clear_state_callable = sched.handle],
                  timers |-> sched.timers],
                 "set")

\* variant: the zone sensor does not look at current_zones
ObjectClassification_state_message_received_NoZoneFilter(s, msg) ==
    IF msg.shape = "not_json" THEN Ignored(s, "decode")
    ELSE IF msg.shape = "not_object" THEN Raised(s)
    ELSE IF Get(msg.type) # "classification" THEN Ignored(s, "type")
    ELSE IF Get(msg.camera) # s.self.actual_cam_name THEN Ignored(s, "camera")
    ELSE IF Get(msg.model) # model_key THEN Ignored(s, "model")
    ELSE IF Has(msg.sub_label) THEN ObjectClassification_state_observe(s, msg.sub_label)
    ELSE IF Has(msg.attribute) THEN ObjectClassification_state_observe(s, msg.attribute)
    ELSE Ignored(s, "value")

\* variant: the model filter is missing
ObjectClassification_state_message_received_NoModelFilter(s, msg) ==
    IF msg.shape = "not_json" THEN Ignored(s, "decode")
    ELSE IF msg.shape = "not_object" THEN Raised(s)
    ELSE IF Get(msg.type) # "classification" THEN Ignored(s, "type")
    ELSE IF Get(msg.camera) # s.self.actual_cam_name THEN Ignored(s, "camera")
    ELSE IF /\ s.self.cam_or_zone_name # s.self.actual_cam_name
            /\ msg.current_zones.shape = "null"
    THEN Raised(s)
    ELSE IF /\ s.self.cam_or_zone_name # s.self.actual_cam_name
            /\ s.self.cam_or_zone_name \notin msg.current_zones.zones
    THEN Ignored(s, "zone")
    ELSE IF Has(msg.sub_label) THEN ObjectClassification_state_observe(s, msg.sub_label)
    ELSE IF Has(msg.attribute) THEN ObjectClassification_state_observe(s, msg.attribute)
    ELSE Ignored(s, "value")

\* _state_message_received; current_zones defaults to [] when the key is
\* absent, and "in" raises TypeError on null
ObjectClassification_state_message_received(s, msg) ==
    IF msg.shape = "not_json" THEN Ignored(s, "decode")
    ELSE IF msg.shape = "not_object" THEN Raised(s)
    ELSE IF Get(msg.type) # "classification" THEN Ignored(s, "type")
    ELSE IF Get(msg.camera) # s.self.actual_cam_name THEN Ignored(s, "camera")
    ELSE IF /\ s.self.cam_or_zone_name # s.self.actual_cam_name
            /\ msg.current_zones.shape = "null"
    THEN Raised(s)
    ELSE IF /\ s.self.cam_or_zone_name # s.self.actual_cam_name
            /\ s.self.cam_or_zone_name \notin msg.current_zones.zones
    THEN Ignored(s, "zone")
    ELSE IF Get(msg.model) # model_key THEN Ignored(s, "model")
    ELSE IF Has(msg.sub_label) THEN ObjectClassification_state_observe(s, msg.sub_label)
    ELSE IF Has(msg.attribute) THEN ObjectClassification_state_observe(s, msg.attribute)
    ELSE Ignored(s, "value")

\* variant: the lifecycle handler schedules its callback without cancelling
\* the pending one
ObjectClassification_event_observe_NoCancel(s, value) ==
    LET sched == async_call_later(s.timers, DecayDelay)
    IN  Notified([self |-> [s.self EXCEPT !.state = ClassText(value),
                                          !.clear_state_callable = sched.handle],
                  timers |-> sched.timers],
                 "set")

\* the accepting part of the loop of _event_message_received
ObjectClassification_event_observe(s, value) ==
    LET cancelled == IF s.self.clear_state_callable # {}
                     THEN Cancel(s.timers, s.self.clear_state_callable)
                     ELSE s.timers
        sched == async_call_later(cancelled, DecayDelay)
    IN  Notified([self |-> [s.self EXCEPT !.state = ClassText(value),
                                          !.clear_state_callable = sched.handle],
                  timers |-> sched.timers],
                 "set")

\* the loop over current_attributes of _event_message_received, from item i
RECURSIVE ObjectClassification_event_loop(_, _, _)
ObjectClassification_event_loop(s, items, i) ==
    IF i > Len(items) THEN Ignored(s, "no_record")
    ELSE IF ~items[i].dict
    THEN ObjectClassification_event_loop(s, items, i + 1)
    ELSE IF Get(items[i].model) # model_key
    THEN ObjectClassification_event_loop(s, items, i + 1)
    ELSE IF Has(items[i].sub_label)
    THEN ObjectClassification_event_observe(s, items[i].sub_label)
    ELSE IF Has(items[i].attribute)
    THEN ObjectClassification_event_observe(s, items[i].attribute)
    ELSE ObjectClassification_event_loop(s, items, i + 1)

\* variant: an event whose end_time is set is not an observation
ObjectClassification_event_message_received_SkipEnded(s, msg) ==
    IF msg.shape = "not_json" THEN Ignored(s, "decode")
    ELSE IF msg.shape = "not_object" THEN Raised(s)
    ELSE IF msg.after_shape = "missing" THEN Ignored(s, "after")
    ELSE IF msg.after_shape = "not_object" THEN Raised(s)
    ELSE IF Get(msg.camera) # s.self.actual_cam_name THEN Ignored(s, "camera")
    ELSE IF /\ s.self.cam_or_zone_name # s.self.actual_cam_name
            /\ msg.current_zones.shape = "null"
    THEN Raised(s)
    ELSE IF /\ s.self.cam_or_zone_name # s.self.actual_cam_name
            /\ s.self.cam_or_zone_name \notin msg.current_zones.zones
    THEN Ignored(s, "zone")
    ELSE IF Get(msg.end_time) # NONE THEN Ignored(s, "ended")
    ELSE IF msg.current_attributes.shape = "null" THEN Raised(s)
    ELSE ObjectClassification_event_loop(s, msg.current_attributes.items, 1)

\* _event_message_received
ObjectClassification_event_message_received(s, msg) ==
    IF msg.shape = "not_json" THEN Ignored(s, "decode")
    ELSE IF msg.shape = "not_object" THEN Raised(s)
    ELSE IF msg.after_shape = "missing" THEN Ignored(s, "after")
    ELSE IF msg.after_shape = "not_object" THEN Raised(s)
    ELSE IF Get(msg.camera) # s.self.actual_cam_name THEN Ignored(s, "camera")
    ELSE IF /\ s.self.cam_or_zone_name # s.self.actual_cam_name
            /\ msg.current_zones.shape = "null"
    THEN Raised(s)
    ELSE IF /\ s.self.cam_or_zone_name # s.self.actual_cam_name
            /\ s.self.cam_or_zone_name \notin msg.current_zones.zones
    THEN Ignored(s, "zone")
    ELSE IF msg.current_attributes.shape = "null" THEN Raised(s)
    ELSE ObjectClassification_event_loop(s, msg.current_attributes.items, 1)

\* variant: the callback leaves the stored callable in place
clear_classification_KeepHandle(s) ==
    Notified([self |-> [s.self EXCEPT !.state = IdleSentinel],
              timers |-> s.timers],
             "decay")

\* clear_classification
clear_classification(s) ==
    Notified([self |-> [s.self EXCEPT !.state = IdleSentinel,
                                      !.clear_state_callable = {}],
              timers |-> s.timers],
             "decay")

-----------------------------------------------------------------------------
(* FrigateClassificationSensor: shows the last payload of                   *)
(* <prefix>/<camera>/classification/<model>; a RestoreSensor, its last      *)
(* value is stored by the host and offered again after a restart            *)

\* what async_get_last_sensor_data offers: ABSENT for no stored data, else
\* the stored native_value
StoredValues ==
    {ABSENT, NONE, EMPTY, "unknown", "Unknown", "UNKNOWN", "unavailable",
     "Unavailable", "Resident"}

\* payloads of the classification topic, decoded
ClassificationPayloads == {EMPTY, "resident", "visitor", "unknown"}

\* text.lower() of the texts of StoredValues
Lower(text) ==
    CASE text \in {"unknown", "Unknown", "UNKNOWN"} -> "unknown"
      [] text \in {"unavailable", "Unavailable"} -> "unavailable"
      [] text = "Resident" -> "resident"
      [] OTHER -> text

\* added = FALSE until async_added_to_hass has run
ClassificationInit(stored) ==
    [state |-> "Unknown", last_sensor_data |-> stored, added |-> FALSE]

\* variant: any stored text is restored
Classification_async_added_to_hass_AnyText(s) ==
    IF Has(s.last_sensor_data) /\ Truthy(s.last_sensor_data)
    THEN Notified([s EXCEPT !.state = PyStr(s.last_sensor_data),
                            !.added = TRUE], "restore")
    ELSE Ignored([s EXCEPT !.added = TRUE], "stored")

\* async_added_to_hass
Classification_async_added_to_hass(s) ==
    IF Has(s.last_sensor_data) /\ Truthy(s.last_sensor_data)
    THEN LET native_value == PyStr(s.last_sensor_data)
         IN  IF Lower(native_value) \notin {"unknown", "unavailable"}
             THEN Notified([s EXCEPT !.state = native_value,
                                     !.added = TRUE], "restore")
             ELSE Ignored([s EXCEPT !.added = TRUE], "unknown")
    ELSE Ignored([s EXCEPT !.added = TRUE], "stored")

\* _state_message_received
Classification_state_message_received(s, payload) ==
    IF Truthy(payload)
    THEN Notified([s EXCEPT !.state = payload], "set")
    ELSE Ignored(s, "empty")

-----------------------------------------------------------------------------
(* Entity setup: async_setup_entry of the sensor and of the binary_sensor   *)
(* platform.  Each platform collects its entities in a list and registers   *)
(* the list with async_add_entities; the dynamic entities of a model come   *)
(* from client.async_get_classification_model_classes(model_key).  The      *)
(* backend is at version 0.17 or later, so the dynamic steps are reached    *)

\* the keys of classification.custom, in the order of the dict
ModelOrder == <<model_key, "dog_breed">>
ModelKeys == {ModelOrder[i] : i \in DOMAIN ModelOrder}

\* the classes the backend lists for a model
ClassesOf(m) == IF m = model_key THEN Sublabels ELSE {"poodle"}

\* the parts of the configuration that setup reads: the models that have an
\* object_config, the models of
\* get_sublabel_classification_models_and_base_objects, and the option
\* CONF_ENABLE_SUBLABEL_SENSORS
SetupConfigs ==
    [object_config : SUBSET ModelKeys, sublabel_models : SUBSET ModelKeys,
     enable_sublabel_sensors : BOOLEAN]

\* get_sublabel_classification_models_and_base_objects(frigate_config): the
\* keys of the models that classify by sublabel, the same for every caller
get_sublabel_classification_models_and_base_objects(config) ==
    config.sublabel_models

\* the routines that request the classes of a model
Sites == {"global", "sublabel", "occupancy"}

\* the steps of async_setup_entry of the sensor platform
SensorProgram(config) ==
    <<[op |-> "static", m |-> NONE], [op |-> "faces", m |-> NONE]>>
    \o [i \in DOMAIN ModelOrder |-> [op |-> "global", m |-> ModelOrder[i]]]
    \o (IF config.enable_sublabel_sensors
        THEN [i \in DOMAIN ModelOrder |-> [op |-> "sublabel", m |-> ModelOrder[i]]]
        ELSE <<>>)
    \o <<[op |-> "register", m |-> NONE]>>

\* the steps of async_setup_entry of the binary_sensor platform
BinaryProgram(config) ==
    <<[op |-> "static", m |-> NONE]>>
    \o [i \in DOMAIN ModelOrder |-> [op |-> "occupancy", m |-> ModelOrder[i]]]
    \o <<[op |-> "register", m |-> NONE]>>

\* the state of one startup: the step each platform is at, the entities
\* collected so far, the requests made per routine and model, the requests
\* that failed, and the platforms that have registered their entities
SetupInit(config) ==
    [config |-> config, sensor_pc |-> 1, binary_pc |-> 1, entities |-> {},
     requests |-> [x \in Sites |-> [m \in ModelKeys |-> 0]],
     failed |-> {}, registered |-> {}]

\* an entity collected by a platform
Entity(platform, kind, m, class) ==
    [platform |-> platform, kind |-> kind, m |-> m, class |-> class]

\* variant: the entities of the model are created although the request failed
fetch_classes_CreateOnFailure(su, platform, site, m, ok) ==
    LET su1 == [su EXCEPT !.requests[site][m] = @ + 1]
    IN  [su1 EXCEPT !.entities =
                        @ \cup {Entity(platform, site, m, c) : c \in ClassesOf(m)},
                    !.failed = IF ok THEN @ ELSE @ \cup {<<site, m>>}]

\* try: classes = await client.async_get_classification_model_classes(m),
\* then one entity per class; except Exception: a warning, nothing created
fetch_classes(su, platform, site, m, ok) ==
    LET su1 == [su EXCEPT !.requests[site][m] = @ + 1]
    IN  IF ok
        THEN [su1 EXCEPT !.entities =
                  @ \cup {Entity(platform, site, m, c) : c \in ClassesOf(m)}]
        ELSE [su1 EXCEPT !.failed = @ \cup {<<site, m>>}]

\* one iteration of the loop of _create_global_object_classification_sensors
create_global_object_classification_sensors(su, m, ok) ==
    IF m \in su.config.object_config
    THEN fetch_classes(su, "sensor", "global", m, ok)
    ELSE su

\* one iteration of the loop of _create_sublabel_sensors
create_sublabel_sensors(su, m, ok) ==
    IF m \in get_sublabel_classification_models_and_base_objects(su.config)
    THEN fetch_classes(su, "sensor", "sublabel", m, ok)
    ELSE su

\* one iteration of the loop of _create_sublabel_occupancy_sensors
create_sublabel_occupancy_sensors(su, m, ok) ==
    IF m \in get_sublabel_classification_models_and_base_objects(su.config)
    THEN fetch_classes(su, "binary_sensor", "occupancy", m, ok)
    ELSE su

\* _create_global_face_sensors: one entity per known face, or a warning
create_global_face_sensors(su, ok) ==
    IF ok
    THEN [su EXCEPT !.entities =
             @ \cup {Entity("sensor", "face", NONE, n) : n \in FaceNames}]
    ELSE su

-----------------------------------------------------------------------------
(* The global sensors: FrigateGlobalFaceSensor, FrigateGlobalPlateSensor,   *)
(* FrigateGlobalObjectClassificationSensor.  Each is bound to one name (a   *)
(* face, a plate, a class of a model) and shows the camera that saw it last *)

face_name == "alice"
plate_name == "family car"
class_name == "delivery_person"

GlobalInit == [state |-> "Unknown"]

\* get_friendly_name(camera): the camera's name with blanks for underscores,
\* in title case
get_friendly_name(camera) == Title(ReplaceUnderscores(camera))

\* variant: only messages of the camera cam_name are accepted
GlobalFace_state_message_received_CameraFilter(s, msg) ==
    IF msg.shape = "not_json" THEN Ignored(s, "decode")
    ELSE IF msg.shape = "not_object" THEN Raised(s)
    ELSE IF Get(msg.type) # "face" THEN Ignored(s, "type")
    ELSE IF Get(msg.camera) # cam_name THEN Ignored(s, "camera")
    ELSE IF Get(msg.name) # face_name THEN Ignored(s, "value")
    ELSE Notified([s EXCEPT !.state = get_friendly_name(msg.camera)], "set")

\* FrigateGlobalFaceSensor._state_message_received
GlobalFace_state_message_received(s, msg) ==
    IF msg.shape = "not_json" THEN Ignored(s, "decode")
    ELSE IF msg.shape = "not_object" THEN Raised(s)
    ELSE IF Get(msg.type) # "face" THEN Ignored(s, "type")
    ELSE IF Get(msg.name) # face_name THEN Ignored(s, "value")
    ELSE IF ~Truthy(Get(msg.camera)) THEN Ignored(s, "camera")
    ELSE Notified([s EXCEPT !.state = get_friendly_name(msg.camera)], "set")

\* FrigateGlobalPlateSensor._state_message_received
GlobalPlate_state_message_received(s, msg) ==
    IF msg.shape = "not_json" THEN Ignored(s, "decode")
    ELSE IF msg.shape = "not_object" THEN Raised(s)
    ELSE IF Get(msg.type) # "lpr" THEN Ignored(s, "type")
    ELSE IF ~Truthy(Get(msg.name)) \/ Get(msg.name) # plate_name
    THEN Ignored(s, "value")
    ELSE IF ~Truthy(Get(msg.camera)) THEN Ignored(s, "camera")
    ELSE Notified([s EXCEPT !.state = get_friendly_name(msg.camera)], "set")

\* detected_class: str of the sub_label, or else of the attribute, or None
detected_class(msg) ==
    IF Has(msg.sub_label) THEN PyStr(msg.sub_label)
    ELSE IF Has(msg.attribute) THEN PyStr(msg.attribute)
    ELSE NONE

\* FrigateGlobalObjectClassificationSensor._state_message_received
GlobalObjectClassification_state_message_received(s, msg) ==
    IF msg.shape = "not_json" THEN Ignored(s, "decode")
    ELSE IF msg.shape = "not_object" THEN Raised(s)
    ELSE IF Get(msg.type) # "classification" THEN Ignored(s, "type")
    ELSE IF Get(msg.model) # model_key THEN Ignored(s, "model")
    ELSE IF ~Truthy(detected_class(msg)) \/ detected_class(msg) # class_name
    THEN Ignored(s, "value")
    ELSE IF ~Truthy(Get(msg.camera)) THEN Ignored(s, "camera")
    ELSE Notified([s EXCEPT !.state = get_friendly_name(msg.camera)], "set")

-----------------------------------------------------------------------------
(* The state machine *)

\* what the last step was: the handler that ran, whether the message was a
\* lifecycle event with a non-null end_time, the tracker entry that the
\* message's object id had before the step (NONE when it had none), and the
\* handler's outcome (where it ended, notifications emitted, exception
\* raised, entity changed)
Last(h, ended, old, s, r) ==
    [handler |-> h, ended |-> ended, old |-> old, exit |-> r.exit,
     notified |-> r.notified, raised |-> r.raised, changed |-> r.s # s]

\* the count sensors are built for every camera and for every zone: the
\* "zone_" entities are those built with a zone's name as cam_name
ObjectCountEntities == {"object_count", "zone_object_count"}
SublabelCountEntities == {"sublabel_count", "zone_sublabel_count"}

\* the entity classes
Entities ==
    ObjectCountEntities \cup SublabelCountEntities \cup
    {"object_occupancy", "sublabel_occupancy",
     "recognized_face", "recognized_plate", "object_classification",
     "global_face", "global_plate", "global_object_classification",
     "classification", "setup"}

\* the entities whose value decays
DecayingEntities == {"recognized_face", "recognized_plate", "object_classification"}

\* the steps in which the model lets time pass, in seconds
TickSteps == {20, 40}

\* nothing was observed yet
NeverObserved == [seen |-> FALSE, value |-> NONE, age |-> DecayDelay]

Init ==
    /\ entity \in Entities
    /\ oc \in {ObjectCountInit(n) :
                 n \in IF entity = "zone_object_count" THEN {zone_name} ELSE {cam_name}}
    /\ sc \in {SublabelCountInit(n) :
                 n \in IF entity = "zone_sublabel_count" THEN {zone_name} ELSE {cam_name}}
    /\ occ = ObjectOccupancyInit(cam_name)
    /\ so = SublabelOccupancyInit(cam_name)
    /\ dk \in CASE entity = "recognized_plate" -> {RecognizedPlateInit}
               [] entity = "object_classification" ->
                    {ObjectClassificationInit(cam_name, NONE),
                     ObjectClassificationInit(zone_name, cam_name)}
               [] OTHER -> {RecognizedFaceInit}
    /\ timers = NoTimers
    /\ latest = NeverObserved
    /\ gl = GlobalInit
    /\ cls \in {ClassificationInit(v) :
                  v \in IF entity = "classification" THEN StoredValues ELSE {ABSENT}}
    /\ setup \in {SetupInit(c) :
                    c \in IF entity = "setup" THEN SetupConfigs
                          ELSE {[object_config |-> {}, sublabel_models |-> {},
                                 enable_sublabel_sensors |-> TRUE]}}
    /\ last = [handler |-> "init", ended |-> FALSE, old |-> NONE,
              exit |-> "init", notified |-> 0,
              raised |-> FALSE, changed |-> FALSE]

\* a message on <prefix>/<camera>/<object_label>
ObjectCountStateMessage ==
    /\ entity \in ObjectCountEntities
    /\ \E p \in IntPayloads :
        LET r == ObjectCount_state_message_received(oc, p)
        IN  /\ oc' = r.s
            /\ last' = Last("state", FALSE, NONE, oc, r)
    /\ UNCHANGED <<entity, cls, setup, sc, occ, so, dk, timers, latest, gl>>

\* a message on <prefix>/tracked_object_update
ObjectCountAttributeMessage ==
    /\ entity \in ObjectCountEntities
    /\ \E m \in AttributeUpdateMsgs :
        LET r == ObjectCount_attribute_message_received(oc, m)
        IN  /\ oc' = r.s
            /\ last' = Last("attribute", FALSE,
                         DictGet(oc.tracked_object_attributes, m.id), oc, r)
    /\ UNCHANGED <<entity, cls, setup, sc, occ, so, dk, timers, latest, gl>>

\* a message on <prefix>/events
ObjectCountEventMessage ==
    /\ entity \in ObjectCountEntities
    /\ \E m \in AttributeEventMsgs :
        LET r == ObjectCount_event_message_received(oc, m)
        IN  /\ oc' = r.s
            /\ last' = Last("event", m.end_time # NONE,
                         DictGet(oc.tracked_object_attributes, m.id), oc, r)
    /\ UNCHANGED <<entity, cls, setup, sc, occ, so, dk, timers, latest, gl>>

\* a message on <prefix>/tracked_object_update
SublabelCountStateMessage ==
    /\ entity \in SublabelCountEntities
    /\ \E m \in SublabelUpdateMsgs :
        LET r == SublabelCount_state_message_received(sc, m)
        IN  /\ sc' = r.s
            /\ last' = Last("attribute", FALSE,
                         DictGet(sc.tracked_objects, m.id), sc, r)
    /\ UNCHANGED <<entity, cls, setup, oc, occ, so, dk, timers, latest, gl>>

\* a message on <prefix>/events
SublabelCountEventMessage ==
    /\ entity \in SublabelCountEntities
    /\ \E m \in SublabelEventMsgs :
        LET r == SublabelCount_event_message_received(sc, m)
        IN  /\ sc' = r.s
            /\ last' = Last("event", m.end_time # NONE,
                         DictGet(sc.tracked_objects, m.id), sc, r)
    /\ UNCHANGED <<entity, cls, setup, oc, occ, so, dk, timers, latest, gl>>

\* a message on <prefix>/<camera>/<object_label>
ObjectOccupancyStateMessage ==
    /\ entity = "object_occupancy"
    /\ \E p \in IntPayloads :
        LET r == ObjectOccupancy_state_message_received(occ, p)
        IN  /\ occ' = r.s
            /\ last' = Last("state", FALSE, NONE, occ, r)
    /\ UNCHANGED <<entity, cls, setup, oc, sc, so, dk, timers, latest, gl>>

\* a message on <prefix>/tracked_object_update
ObjectOccupancyAttributeMessage ==
    /\ entity = "object_occupancy"
    /\ \E m \in AttributeUpdateMsgs :
        LET r == ObjectOccupancy_attribute_message_received(occ, m)
        IN  /\ occ' = r.s
            /\ last' = Last("attribute", FALSE,
                         DictGet(occ.tracked_object_attributes, m.id), occ, r)
    /\ UNCHANGED <<entity, cls, setup, oc, sc, so, dk, timers, latest, gl>>

\* a message on <prefix>/tracked_object_update
SublabelOccupancyStateMessage ==
    /\ entity = "sublabel_occupancy"
    /\ \E m \in SublabelUpdateMsgs :
        LET r == SublabelOccupancy_state_message_received(so, m)
        IN  /\ so' = r.s
            /\ last' = Last("attribute", FALSE,
                         IF m.id \in so.tracked_objects THEN sublabel_class ELSE NONE,
                         so, r)
    /\ UNCHANGED <<entity, cls, setup, oc, sc, occ, dk, timers, latest, gl>>

\* the decaying entity and the pending timers, as the handlers take them
World == [self |-> dk, timers |-> timers]

\* the step of a handler of a decaying entity with result r: "latest" keeps
\* the value shown by the latest accepted observation and the seconds since
Observed(h, r) ==
    /\ dk' = r.s.self
    /\ timers' = r.s.timers
    /\ latest' = IF r.exit = "set"
                 THEN [seen |-> TRUE, value |-> r.s.self.state, age |-> 0]
                 ELSE latest
    /\ last' = Last(h, FALSE, dk.state, World, r)
    /\ UNCHANGED <<entity, cls, setup, oc, sc, occ, so, gl>>

\* a message on <prefix>/tracked_object_update
RecognizedFaceStateMessage ==
    /\ entity = "recognized_face"
    /\ \E m \in FaceUpdateMsgs :
        Observed("state", RecognizedFace_state_message_received(World, m))

\* a message on <prefix>/tracked_object_update
RecognizedPlateStateMessage ==
    /\ entity = "recognized_plate"
    /\ \E m \in PlateUpdateMsgs :
        Observed("state", RecognizedPlate_state_message_received(World, m))

\* a message on <prefix>/tracked_object_update
ObjectClassificationStateMessage ==
    /\ entity = "object_classification"
    /\ \E m \in ClassUpdateMsgs :
        Observed("state", ObjectClassification_state_message_received(World, m))

\* a message on <prefix>/events
ObjectClassificationEventMessage ==
    /\ entity = "object_classification"
    /\ \E m \in ClassEventMsgs :
        Observed("event", ObjectClassification_event_message_received(World, m))

\* a message on <prefix>/tracked_object_update, handled by the global sensor
\* under test
GlobalFaceStateMessage ==
    /\ entity = "global_face"
    /\ \E m \in FaceUpdateMsgs :
        LET r == GlobalFace_state_message_received(gl, m)
        IN  /\ gl' = r.s
            /\ last' = Last("state", FALSE, gl.state, gl, r)
    /\ UNCHANGED <<entity, cls, setup, oc, sc, occ, so, dk, timers, latest>>

GlobalPlateStateMessage ==
    /\ entity = "global_plate"
    /\ \E m \in PlateUpdateMsgs :
        LET r == GlobalPlate_state_message_received(gl, m)
        IN  /\ gl' = r.s
            /\ last' = Last("state", FALSE, gl.state, gl, r)
    /\ UNCHANGED <<entity, cls, setup, oc, sc, occ, so, dk, timers, latest>>

GlobalObjectClassificationStateMessage ==
    /\ entity = "global_object_classification"
    /\ \E m \in ClassUpdateMsgs :
        LET r == GlobalObjectClassification_state_message_received(gl, m)
        IN  /\ gl' = r.s
            /\ last' = Last("state", FALSE, gl.state, gl, r)
    /\ UNCHANGED <<entity, cls, setup, oc, sc, occ, so, dk, timers, latest>>

\* the host adds the classification sensor after a restart
ClassificationAddedToHass ==
    /\ entity = "classification"
    /\ ~cls.added
    /\ LET r == Classification_async_added_to_hass(cls)
       IN  /\ cls' = r.s
           /\ last' = [Last("restore", FALSE, cls.state, cls, r)
                         EXCEPT !.changed = r.s.state # cls.state]
    /\ UNCHANGED <<entity, oc, sc, occ, so, dk, timers, latest, gl, setup>>

\* a message on <prefix>/<camera>/classification/<model>
ClassificationStateMessage ==
    /\ entity = "classification"
    /\ cls.added
    /\ \E p \in ClassificationPayloads :
        LET r == Classification_state_message_received(cls, p)
        IN  /\ cls' = r.s
            /\ last' = Last("state", FALSE, cls.state, cls, r)
    /\ UNCHANGED <<entity, oc, sc, occ, so, dk, timers, latest, gl, setup>>

\* the sensor platform takes the step (op, m) it is at: su is the state after
\* the step
SensorSetup(op, m, su) ==
    /\ entity = "setup"
    /\ setup.sensor_pc \in DOMAIN SensorProgram(setup.config)
    /\ SensorProgram(setup.config)[setup.sensor_pc] = [op |-> op, m |-> m]
    /\ setup' = [su EXCEPT !.sensor_pc = @ + 1]
    /\ UNCHANGED <<entity, oc, sc, occ, so, dk, timers, latest, gl, cls, last>>

\* the binary_sensor platform takes the step (op, m) it is at
BinarySetup(op, m, su) ==
    /\ entity = "setup"
    /\ setup.binary_pc \in DOMAIN BinaryProgram(setup.config)
    /\ BinaryProgram(setup.config)[setup.binary_pc] = [op |-> op, m |-> m]
    /\ setup' = [su EXCEPT !.binary_pc = @ + 1]
    /\ UNCHANGED <<entity, oc, sc, occ, so, dk, timers, latest, gl, cls, last>>

\* the entities of the static configuration
SensorSetupStatic ==
    SensorSetup("static", NONE,
        [setup EXCEPT !.entities = @ \cup {Entity("sensor", "static", NONE, NONE)}])

SensorSetupFaces ==
    \E ok \in BOOLEAN :
        SensorSetup("faces", NONE, create_global_face_sensors(setup, ok))

SensorSetupGlobalClassification ==
    \E ok \in BOOLEAN, m \in ModelKeys :
        SensorSetup("global", m,
            create_global_object_classification_sensors(setup, m, ok))

SensorSetupSublabel ==
    \E ok \in BOOLEAN, m \in ModelKeys :
        SensorSetup("sublabel", m, create_sublabel_sensors(setup, m, ok))

\* async_add_entities(entities)
SensorSetupRegister ==
    SensorSetup("register", NONE, [setup EXCEPT !.registered = @ \cup {"sensor"}])

BinarySetupStatic ==
    BinarySetup("static", NONE,
        [setup EXCEPT !.entities =
            @ \cup {Entity("binary_sensor", "static", NONE, NONE)}])

BinarySetupSublabelOccupancy ==
    \E ok \in BOOLEAN, m \in ModelKeys :
        BinarySetup("occupancy", m,
            create_sublabel_occupancy_sensors(setup, m, ok))

BinarySetupRegister ==
    BinarySetup("register", NONE, [setup EXCEPT !.registered = @ \cup {"binary_sensor"}])

\* the steps of the two platforms
SensorSetupNext ==
    \/ SensorSetupStatic
    \/ SensorSetupFaces
    \/ SensorSetupGlobalClassification
    \/ SensorSetupSublabel
    \/ SensorSetupRegister

BinarySetupNext ==
    \/ BinarySetupStatic
    \/ BinarySetupSublabelOccupancy
    \/ BinarySetupRegister

\* time passes, but not beyond the moment a pending timer is due
Tick ==
    /\ entity \in DecayingEntities
    /\ timers # NoTimers \/ latest.age < DecayDelay
    /\ \E d \in TickSteps :
        /\ \A t \in DOMAIN timers : timers[t] >= d
        /\ timers' = [t \in DOMAIN timers |-> timers[t] - d]
        /\ latest' = [latest EXCEPT !.age = IF @ + d > DecayDelay THEN DecayDelay ELSE @ + d]
    /\ last' = [handler |-> "tick", ended |-> FALSE, old |-> dk.state,
                exit |-> "tick", notified |-> 0, raised |-> FALSE, changed |-> FALSE]
    /\ UNCHANGED <<entity, cls, setup, oc, sc, occ, so, dk, gl>>

\* the callback of the entity's class
clear_state(s) ==
    CASE entity = "recognized_face" -> clear_recognized_face(s)
      [] entity = "recognized_plate" -> clear_recognized_plate(s)
      [] OTHER -> clear_classification(s)

\* the event loop runs the callback of a timer that is due; the timer is no
\* longer pending
DecayCallback ==
    /\ entity \in DecayingEntities
    /\ \E t \in DOMAIN timers :
        /\ timers[t] = 0
        /\ LET r == clear_state([self |-> dk, timers |-> Cancel(timers, {t})])
           IN  /\ dk' = r.s.self
               /\ timers' = r.s.timers
               /\ last' = Last("decay", FALSE, dk.state, World, r)
    /\ UNCHANGED <<entity, cls, setup, oc, sc, occ, so, latest, gl>>

Next ==
    \/ ObjectCountStateMessage
    \/ ObjectCountAttributeMessage
    \/ ObjectCountEventMessage
    \/ SublabelCountStateMessage
    \/ SublabelCountEventMessage
    \/ ObjectOccupancyStateMessage
    \/ ObjectOccupancyAttributeMessage
    \/ SublabelOccupancyStateMessage
    \/ RecognizedFaceStateMessage
    \/ RecognizedPlateStateMessage
    \/ ObjectClassificationStateMessage
    \/ ObjectClassificationEventMessage
    \/ GlobalFaceStateMessage
    \/ GlobalPlateStateMessage
    \/ GlobalObjectClassificationStateMessage
    \/ SensorSetupNext
    \/ BinarySetupNext
    \/ ClassificationAddedToHass
    \/ ClassificationStateMessage
    \/ Tick
    \/ DecayCallback

Spec == Init /\ [][Next]_vars

\* time passes, the event loop runs the callbacks that are due and runs each
\* platform's setup to its end
FairSpec ==
    /\ Spec
    /\ WF_vars(Tick) /\ WF_vars(DecayCallback)
    /\ WF_vars(SensorSetupNext) /\ WF_vars(BinarySetupNext)

TypeOK ==
    /\ entity \in Entities
    /\ oc.cam_name \in {cam_name, zone_name}
    /\ sc.cam_name \in {cam_name, zone_name}
    /\ DOMAIN occ.tracked_object_attributes \subseteq ObjectIds
    /\ occ.is_on \in BOOLEAN
    /\ so.tracked_objects \subseteq ObjectIds
    /\ so.is_on \in BOOLEAN
    /\ dk.clear_state_callable \subseteq 1..2
    /\ DOMAIN timers \subseteq 1..2
    /\ \A t \in DOMAIN timers : timers[t] \in 0..DecayDelay
    /\ latest.age \in 0..DecayDelay
    /\ oc.state \in {0, 2}
    /\ DOMAIN oc.tracked_object_attributes \subseteq ObjectIds
    /\ DOMAIN oc.attribute_counts \subseteq Attributes
    /\ DOMAIN sc.tracked_objects \subseteq ObjectIds
    /\ sc.state \in 0..Cardinality(ObjectIds)

-----------------------------------------------------------------------------
(* Shorthands used by the properties *)

Tracker == oc.tracked_object_attributes
Counts == oc.attribute_counts

\* number of object ids whose tracker entry is v
NumWith(tracked, v) == Cardinality({i \in DOMAIN tracked : tracked[i] = v})

RECURSIVE SumOver(_, _)
SumOver(counts, keys) ==
    IF keys = {} THEN 0
    ELSE LET k == CHOOSE x \in keys : TRUE
         IN  counts[k] + SumOver(counts, keys \ {k})

\* sum of all counts
SumCounts(counts) == SumOver(counts, DOMAIN counts)

\* tracker and attribute counts of two object-count states agree
SameAttribution(s, t) ==
    /\ s.tracked_object_attributes = t.tracked_object_attributes
    /\ s.attribute_counts = t.attribute_counts

\* the direct classification message for (object id, model, attribute)
DirectMsg(i, m, a) == UpdateMsg("classification", cam_name, m, a, NONE, i)

\* the active lifecycle event of the entity's camera and label for object id i
\* with the given current_attributes items
ActiveEvent(i, items) == EventMsg(cam_name, obj_name, i, NONE, AttrList(items))

\* the lifecycle events that pass the decode step (a JSON object with an
\* "after" object)
DecodedEvents(msgs) ==
    {m \in msgs : m.shape = "object" /\ m.after_shape = "object"}

\* the item is applied by the loop of ObjectCount._event_message_received
Qualifies(item) ==
    item.dict /\ item.model \in attribute_models /\ Truthy(item.attribute)

-----------------------------------------------------------------------------
(* C1 *)

\* C1: in FrigateObjectCountSensor, in every reachable state, the count of
\* every classification value K (0 when absent) equals the number of object
\* ids whose tracker entry is K, and the sum of all counts equals the size of
\* the tracker.
C1_CountsEqualTracker ==
    entity = "object_count" =>
        /\ \A K \in Attributes \cup {LIST} :
              DictGet0(Counts, K) = NumWith(Tracker, K)
        /\ SumCounts(Counts) = Cardinality(DOMAIN Tracker)

-----------------------------------------------------------------------------
(* C2 *)

-----------------------------------------------------------------------------
(* C3 *)

\* the active lifecycle events of the entity's camera and label that carry a
\* current_attributes list
ActiveListEvents ==
    {m \in DecodedEvents(AttributeEventMsgs) :
        /\ m.camera = cam_name /\ m.label = obj_name
        /\ m.end_time = NONE /\ m.current_attributes.shape = "list"}

\* the event m and the direct message for item k of its list leave the same
\* tracker and attribute counts
EventEqualsDirect(m, k) ==
    LET item == m.current_attributes.items[k]
    IN  SameAttribution(
            ObjectCount_event_message_received(oc, m).s,
            ObjectCount_attribute_message_received(
                oc, DirectMsg(m.id, item.model, item.attribute)).s)

-----------------------------------------------------------------------------
(* C4 *)

\* the set-attribution triples (object id, model, value) the entity accepts
Attributions == ObjectIds \X attribute_models \X Attributes

\* the active lifecycle event that carries the one record {model, attribute}
EventMsgOf(i, m, a) == ActiveEvent(i, <<AttrItem(m, a, NONE)>>)

\* C4: from every reachable state, delivering the same attribution twice
\* (twice on the direct topic, twice on the lifecycle topic, or once on each,
\* in either order) leaves the tracker and the attribute counts as after
\* delivering it once.
C4_SetAttributionIdempotent ==
    entity = "object_count" =>
        \A t \in Attributions :
            LET d == DirectMsg(t[1], t[2], t[3])
                e == EventMsgOf(t[1], t[2], t[3])
                rd == ObjectCount_attribute_message_received(oc, d)
                re == ObjectCount_event_message_received(oc, e)
            IN  /\ SameAttribution(
                       ObjectCount_attribute_message_received(rd.s, d).s, rd.s)
                /\ SameAttribution(
                       ObjectCount_event_message_received(re.s, e).s, re.s)
                /\ SameAttribution(
                       ObjectCount_event_message_received(rd.s, e).s, rd.s)
                /\ SameAttribution(
                       ObjectCount_attribute_message_received(re.s, d).s, re.s)

\* the lifecycle topic has just re-asserted the value the object already
\* held: the handler accepted the message and nothing changed
C4_Witness ==
    /\ entity = "object_count"
    /\ last.handler = "event" /\ last.exit = "set" /\ last.notified = 1
    /\ last.old = "standing" /\ ~last.changed
    /\ DOMAIN Tracker = {"o1"} /\ Tracker["o1"] = "standing"
    /\ Counts["standing"] = 1

-----------------------------------------------------------------------------
(* C5 *)

-----------------------------------------------------------------------------
(* C6 *)

\* the handler result leaves the entity s as it is and notifies nobody
NoEffect(s, r) == r.s = s /\ r.notified = 0

\* C6: a lifecycle event (ended or active) whose after.camera is not the
\* entity's camera changes no field of the entity (tracker, attribute counts,
\* primary count) and emits no notification, whatever its object id.
C6_OtherCameraEventIgnored ==
    /\ entity = "object_count" =>
        \A m \in DecodedEvents(AttributeEventMsgs) :
            m.camera # cam_name =>
                NoEffect(oc, ObjectCount_event_message_received(oc, m))
    /\ entity = "sublabel_count" =>
        \A m \in DecodedEvents(SublabelEventMsgs) :
            m.camera # cam_name =>
                NoEffect(sc, SublabelCount_event_message_received(sc, m))

\* an end-of-track event of another camera for a tracked object id has just
\* been dropped by the camera filter
C6_Witness ==
    /\ entity = "object_count"
    /\ last.handler = "event" /\ last.ended /\ last.exit = "camera"
    /\ last.old = "standing" /\ last.notified = 0 /\ ~last.changed
    /\ NumWith(Tracker, "standing") = 1
    /\ Counts["standing"] = 1

-----------------------------------------------------------------------------
(* C7 *)

\* C7: a lifecycle event of the entity's camera whose after.label is not the
\* entity's object label changes neither the tracker nor the counts and emits
\* no notification, whatever its object id.
C7_OtherLabelEventIgnored ==
    /\ entity = "object_count" =>
        \A m \in DecodedEvents(AttributeEventMsgs) :
            (m.camera = cam_name /\ m.label # obj_name) =>
                NoEffect(oc, ObjectCount_event_message_received(oc, m))
    /\ entity = "sublabel_count" =>
        \A m \in DecodedEvents(SublabelEventMsgs) :
            (m.camera = cam_name /\ m.label # obj_name) =>
                NoEffect(sc, SublabelCount_event_message_received(sc, m))

\* an end-of-track event of another label for a tracked object id of the
\* sublabel-count sensor has just been dropped by the label filter
C7_Witness ==
    /\ entity = "sublabel_count"
    /\ last.handler = "event" /\ last.ended /\ last.exit = "label"
    /\ last.old = sublabel_class /\ last.notified = 0 /\ ~last.changed
    /\ sc.state = 1

-----------------------------------------------------------------------------
(* C8 *)

\* C8: an end-of-track event of the entity's camera and label for an object
\* id that is not in the tracker leaves the entity unchanged and emits no
\* notification.
C8_EndOfUntrackedIgnored ==
    /\ entity = "object_count" =>
        \A m \in DecodedEvents(AttributeEventMsgs) :
            (/\ m.camera = cam_name /\ m.label = obj_name
             /\ m.end_time # NONE /\ m.id \notin DOMAIN Tracker) =>
                NoEffect(oc, ObjectCount_event_message_received(oc, m))
    /\ entity = "sublabel_count" =>
        \A m \in DecodedEvents(SublabelEventMsgs) :
            (/\ m.camera = cam_name /\ m.label = obj_name
             /\ m.end_time # NONE /\ m.id \notin DOMAIN sc.tracked_objects) =>
                NoEffect(sc, SublabelCount_event_message_received(sc, m))

\* a duplicate end-of-track event has just been absorbed: the object had been
\* counted and cleared before ("standing" is in the counts with 0)
C8_Witness ==
    /\ entity = "object_count"
    /\ last.handler = "event" /\ last.ended /\ last.exit = "untracked"
    /\ last.notified = 0 /\ ~last.changed
    /\ Tracker = EmptyDict
    /\ DOMAIN Counts = {"standing"} /\ Counts["standing"] = 0

-----------------------------------------------------------------------------
(* C9 *)

\* m is an end-of-track event for object id i that the entity accepts
EndOfTrackFor(m, i) ==
    /\ m.shape = "object" /\ m.after_shape = "object"
    /\ m.camera = cam_name /\ m.label = obj_name
    /\ m.end_time # NONE /\ m.id = i

\* C9: in the count sensors an object id leaves the tracker only in a step
\* that handles a lifecycle event with non-null end_time for that id: no
\* primary-count message, no direct classification message and no active
\* lifecycle event removes an id.  (The count sensors schedule no timers.)
C9_OnlyEndOfTrackRemoves ==
    /\ entity = "object_count" =>
        \A i \in DOMAIN Tracker :
            /\ \A p \in IntPayloads :
                  i \in DOMAIN ObjectCount_state_message_received(oc, p)
                                  .s.tracked_object_attributes
            /\ \A m \in AttributeUpdateMsgs :
                  i \in DOMAIN ObjectCount_attribute_message_received(oc, m)
                                  .s.tracked_object_attributes
            /\ \A m \in AttributeEventMsgs :
                  i \notin DOMAIN ObjectCount_event_message_received(oc, m)
                                     .s.tracked_object_attributes
                  => EndOfTrackFor(m, i)
    /\ entity = "sublabel_count" =>
        \A i \in DOMAIN sc.tracked_objects :
            /\ \A m \in SublabelUpdateMsgs :
                  i \in DOMAIN SublabelCount_state_message_received(sc, m)
                                  .s.tracked_objects
            /\ \A m \in SublabelEventMsgs :
                  i \notin DOMAIN SublabelCount_event_message_received(sc, m)
                                     .s.tracked_objects
                  => EndOfTrackFor(m, i)

\* an end-of-track event has just removed one of two tracked objects of the
\* sublabel-count sensor
C9_Witness ==
    /\ entity = "sublabel_count"
    /\ last.handler = "event" /\ last.ended /\ last.exit = "cleared"
    /\ last.old = "resident"
    /\ DOMAIN sc.tracked_objects = {"o2"}

-----------------------------------------------------------------------------
(* C10 *)

\* the set-attribution messages: for every triple the direct message and the
\* lifecycle event that carries it
SetAttributionMsgs ==
    {[topic |-> tp, id |-> t[1], model |-> t[2], value |-> t[3]] :
        tp \in {"attribute", "event"}, t \in Attributions}

Deliver(s, x) ==
    IF x.topic = "attribute"
    THEN ObjectCount_attribute_message_received(s, DirectMsg(x.id, x.model, x.value))
    ELSE ObjectCount_event_message_received(s, EventMsgOf(x.id, x.model, x.value))

\* C10 as stated: any two accepted set-attribution messages, processed in
\* either order from the same state, yield the same tracker and counts.
C10_SetAttributionCommutes ==
    entity = "object_count" =>
        \A x, y \in SetAttributionMsgs :
            LET rx == Deliver(oc, x)
                ry == Deliver(oc, y)
                rxy == Deliver(rx.s, y)
                ryx == Deliver(ry.s, x)
            IN  (/\ rx.notified = 1 /\ rxy.notified = 1
                 /\ ry.notified = 1 /\ ryx.notified = 1) =>
                SameAttribution(rxy.s, ryx.s)

\* C10 amended: they do when the two messages name different object ids or
\* carry the same value; two messages that give the same object id different
\* values do not commute: the object holds the value processed last.
C10_SetAttributionCommutesUnlessSameObject ==
    entity = "object_count" =>
        \A x, y \in SetAttributionMsgs :
            LET rx == Deliver(oc, x)
                ry == Deliver(oc, y)
                rxy == Deliver(rx.s, y)
                ryx == Deliver(ry.s, x)
            IN  (/\ rx.notified = 1 /\ rxy.notified = 1
                 /\ ry.notified = 1 /\ ryx.notified = 1) =>
                /\ (x.id # y.id \/ x.value = y.value) => SameAttribution(rxy.s, ryx.s)
                /\ (x.id = y.id) =>
                      /\ rxy.s.tracked_object_attributes[x.id] = y.value
                      /\ ryx.s.tracked_object_attributes[x.id] = x.value
                /\ (x.id = y.id /\ x.value # y.value) => ~SameAttribution(rxy.s, ryx.s)

\* two set-attributions for different objects, one from each topic, have been
\* accepted
C10_Witness ==
    /\ entity = "object_count"
    /\ last.handler = "event" /\ last.exit = "set" /\ last.old = NONE
    /\ DOMAIN Tracker = {"o1", "o2"}
    /\ Tracker["o1"] = "standing" /\ Tracker["o2"] = "walking"
    /\ Counts["standing"] = 1 /\ Counts["walking"] = 1

-----------------------------------------------------------------------------
(* C11 *)

\* C11: attribution is kept per model: for an entity bound to two attribute
\* models, after object id i was attributed V1 under model M1, attributing
\* the same object V2 under another model M2 leaves the count that the object
\* contributed under M1 unchanged (and counts the new value once).
C11_AttributionPerModel ==
    entity = "object_count" =>
        \A i \in ObjectIds, M1 \in attribute_models, M2 \in attribute_models,
           V1 \in Attributes, V2 \in Attributes :
            LET r1 == ObjectCount_attribute_message_received(oc, DirectMsg(i, M1, V1))
                r2 == ObjectCount_attribute_message_received(r1.s, DirectMsg(i, M2, V2))
            IN  (M1 # M2 /\ V1 # V2) =>
                /\ r2.s.attribute_counts[V1] = r1.s.attribute_counts[V1]
                /\ r2.s.attribute_counts[V2] = DictGet0(r1.s.attribute_counts, V2) + 1

-----------------------------------------------------------------------------
(* C12 *)

\* C12: in every reachable state every value of the attribute counts of
\* FrigateObjectCountSensor and of FrigateObjectOccupancySensor, and the state
\* of FrigateSublabelCountSensor, is a non-negative integer, whatever
\* sequence of (duplicated, reordered) attribution and end-of-track messages
\* was handled.
C12_CountsNonNegative ==
    /\ \A K \in DOMAIN oc.attribute_counts :
          oc.attribute_counts[K] \in Nat
    /\ \A K \in DOMAIN occ.attribute_counts :
          occ.attribute_counts[K] \in Nat
    /\ sc.state \in Nat

\* the occupancy sensor has just moved its only tracked object from
\* "standing" to "walking": the count of "standing" went down to 0
C12_Witness ==
    /\ entity = "object_occupancy"
    /\ last.handler = "attribute" /\ last.exit = "set" /\ last.old = "standing"
    /\ DOMAIN occ.tracked_object_attributes = {"o1"}
    /\ DOMAIN occ.attribute_counts = {"standing", "walking"}
    /\ occ.attribute_counts["standing"] = 0
    /\ occ.attribute_counts["walking"] = 1

-----------------------------------------------------------------------------
(* C13 *)

\* the messages the decaying entity under test subscribes to, each with the
\* result of its handler in the current state
DecayingResults ==
    CASE entity = "recognized_face" ->
           {[msg |-> m, r |-> RecognizedFace_state_message_received(World, m)] :
               m \in FaceUpdateMsgs}
      [] entity = "recognized_plate" ->
           {[msg |-> m, r |-> RecognizedPlate_state_message_received(World, m)] :
               m \in PlateUpdateMsgs}
      [] entity = "object_classification" ->
           {[msg |-> m, r |-> ObjectClassification_state_message_received(World, m)] :
               m \in ClassUpdateMsgs}
      [] OTHER -> {}

\* the value an accepted message of the direct topic carries, as the sensor
\* shows it: the face name; the plate's name in title case, or else its
\* number; the sub_label, or else the attribute, in title case with blanks
\* for underscores
ShownValue(m) ==
    CASE entity = "recognized_face" -> m.name
      [] entity = "recognized_plate" ->
           IF m.name \in PlateNames THEN Title(m.name) ELSE PyStr(m.plate)
      [] OTHER ->
           Title(ReplaceUnderscores(
               PyStr(IF m.sub_label # ABSENT THEN m.sub_label ELSE m.attribute)))

\* after an accepted observation the value reads the observed value and one
\* decay callback is pending, due after the full delay
C13_ObservationShown ==
    \A x \in DecayingResults :
        x.r.exit = "set" =>
            /\ x.r.s.self.state = ShownValue(x.msg)
            /\ x.r.notified = 1
            /\ \E t \in DOMAIN x.r.s.timers :
                  /\ x.r.s.timers = [u \in {t} |-> DecayDelay]
                  /\ x.r.s.self.clear_state_callable = {t}

\* the value is not idle before the delay, counted from the latest accepted
\* observation, has elapsed (unless that observation itself reads "None");
\* the pending callback is due exactly when that delay has elapsed, and once
\* no callback is pending the value is idle
C13_IdleOnlyAfterDelay ==
    (entity \in DecayingEntities /\ latest.seen) =>
        /\ (dk.state = IdleSentinel /\ latest.value # IdleSentinel) =>
              (latest.age = DecayDelay /\ timers = NoTimers)
        /\ \A t \in DOMAIN timers : timers[t] = DecayDelay - latest.age
        /\ timers = NoTimers => dk.state = IdleSentinel
        /\ timers # NoTimers => dk.state = latest.value

\* the latest step accepted an observation
ObservationAccepted == last.exit = "set" /\ entity \in DecayingEntities

\* C13: for the decaying sensors, after an accepted observation the value
\* reads the observed value; unless observations keep being accepted, the
\* decay callback fires once the delay has elapsed and the value reads the
\* idle sentinel from then on; the value is not idle before the delay counted
\* from the latest accepted observation has elapsed.
C13_ObserveThenDecay ==
    /\ [](C13_ObservationShown /\ C13_IdleOnlyAfterDelay)
    /\ (entity \in DecayingEntities) =>
          \/ []<>ObservationAccepted
          \/ <>[](latest.seen => (dk.state = IdleSentinel /\ timers = NoTimers))

\* the decay callback of the face sensor has just fired, a full delay after
\* "alice" was observed: the value went from "alice" to the idle sentinel
C13_Witness ==
    /\ entity = "recognized_face"
    /\ last.handler = "decay" /\ last.old = "alice"
    /\ latest.value = "alice" /\ latest.age = DecayDelay
    /\ dk.state = IdleSentinel
    /\ timers = NoTimers

-----------------------------------------------------------------------------
(* C14 *)

\* the only callback that can fire is the one scheduled by the latest accepted
\* observation (a callback scheduled by an earlier observation was cancelled
\* and is not pending), and until the delay of the latest accepted observation
\* has elapsed and its callback has run the value reads what that observation
\* showed
C14_OnlyLatestPending ==
    (entity \in DecayingEntities /\ latest.seen) =>
        /\ DOMAIN timers = dk.clear_state_callable
        /\ \A t \in DOMAIN timers : timers[t] = DecayDelay - latest.age
        /\ (latest.age < DecayDelay \/ timers # NoTimers) => dk.state = latest.value

\* C14: under every interleaving of message handling, time passing and
\* callback firing on one decaying sensor, the callback scheduled by an
\* observation that was followed by a later accepted observation never fires:
\* a callback fires only when the full delay has elapsed since the latest
\* accepted observation, and it is the callback that observation scheduled;
\* before that the value never reverts to the idle sentinel.
C14_SupersededCallbackNeverFires ==
    /\ [](C14_OnlyLatestPending)
    /\ [][DecayCallback =>
            /\ latest.age = DecayDelay
            /\ DOMAIN timers = dk.clear_state_callable
            /\ Cardinality(DOMAIN timers) = 1]_vars

\* "bob" has just been observed while the value still read "alice", that is
\* while the callback scheduled for "alice" was pending: that callback is
\* gone, and the one pending callback is due a full delay from now
C14_Witness ==
    /\ entity = "recognized_face"
    /\ last.handler = "state" /\ last.exit = "set" /\ last.old = "alice"
    /\ dk.state = "bob"
    /\ latest.value = "bob" /\ latest.age = 0
    /\ \E t \in DOMAIN timers :
          /\ timers = [u \in {t} |-> DecayDelay]
          /\ dk.clear_state_callable = {t}

-----------------------------------------------------------------------------
(* C15 *)

\* the handler result r leaves at most one pending callback, the one its
\* stored callable cancels; when it accepted an observation that callback is
\* the new one, due after the full delay
OneCallbackAfter(r) ==
    /\ Cardinality(DOMAIN r.s.timers) <= 1
    /\ DOMAIN r.s.timers = r.s.self.clear_state_callable
    /\ r.exit = "set" =>
          \E t \in DOMAIN r.s.timers : r.s.timers = [u \in {t} |-> DecayDelay]

\* C15: in every reachable state a decaying sensor has at most one pending
\* decay callback, the one its stored callable cancels; a handler that
\* schedules a callback leaves only the new one pending.  For
\* FrigateObjectClassificationSensor this holds for both handlers (direct
\* topic and lifecycle topic), which share the one stored callable.
C15_AtMostOnePendingCallback ==
    entity \in DecayingEntities =>
        /\ Cardinality(DOMAIN timers) <= 1
        /\ DOMAIN timers = dk.clear_state_callable
        /\ \A x \in DecayingResults : OneCallbackAfter(x.r)
        /\ entity = "object_classification" =>
              \A m \in ClassEventMsgs :
                  OneCallbackAfter(ObjectClassification_event_message_received(World, m))

\* the lifecycle handler of the object classification sensor has just
\* accepted an observation while the value read "Resident" (a value only the
\* direct topic carries), that is while the callback scheduled by the direct
\* handler was pending: one callback is pending, due a full delay from now
C15_Witness ==
    /\ entity = "object_classification"
    /\ last.handler = "event" /\ last.exit = "set" /\ last.old = "Resident"
    /\ dk.state = "Delivery Person"
    /\ Cardinality(DOMAIN timers) = 1
    /\ \A t \in DOMAIN timers : timers[t] = DecayDelay

-----------------------------------------------------------------------------
(* C16 *)

\* C16: when a decay callback fires it sets the value to the idle sentinel
\* "None", writes the state once and clears the stored callable: after it no
\* timer is pending and no callable is stored.
C16_CallbackResetsValueAndHandle ==
    entity \in DecayingEntities =>
        /\ \A t \in DOMAIN timers :
              timers[t] = 0 =>
                  LET r == clear_state([self |-> dk, timers |-> Cancel(timers, {t})])
                  IN  /\ r.s.self.state = "None"
                      /\ r.notified = 1
                      /\ ~r.raised
                      /\ r.s.self.clear_state_callable = {}
                      /\ r.s.timers = NoTimers
        /\ last.handler = "decay" =>
              /\ dk.state = "None"
              /\ last.notified = 1
              /\ dk.clear_state_callable = {}
              /\ timers = NoTimers

\* the callback of the plate sensor has just fired while the value read
\* "Family Car"
C16_Witness ==
    /\ entity = "recognized_plate"
    /\ last.handler = "decay" /\ last.old = "Family Car" /\ last.changed
    /\ dk.state = "None"
    /\ dk.clear_state_callable = {}
    /\ timers = NoTimers

-----------------------------------------------------------------------------
(* C17 *)

\* the decoded message m fails the type filter (expected subtype t), the
\* camera filter (bound camera c; cameras = FALSE for the global sensors,
\* which have none) or the model filter (accepted model keys ms; models =
\* FALSE for the handlers that have none)
FailsFilter(m, t, cameras, c, models, ms) ==
    /\ m.shape = "object"
    /\ \/ Get(m.type) # t
       \/ cameras /\ Get(m.camera) # c
       \/ models /\ Get(m.model) \notin ms

\* C17: for every handler of the tracked_object_update topic, a message whose
\* type is not the handler's expected subtype, whose camera is not the
\* entity's bound camera (non-global entities) or whose model is not the
\* entity's bound or tracked model key changes no field of the entity (nor
\* its pending callback) and emits no notification.
C17_FilteredUpdateIgnored ==
    /\ entity \in ObjectCountEntities =>
        \A m \in AttributeUpdateMsgs :
            FailsFilter(m, "classification", TRUE, oc.cam_name, TRUE, attribute_models)
            => NoEffect(oc, ObjectCount_attribute_message_received(oc, m))
    /\ entity \in SublabelCountEntities =>
        \A m \in SublabelUpdateMsgs :
            FailsFilter(m, "classification", TRUE, sc.cam_name, TRUE, {model_key})
            => NoEffect(sc, SublabelCount_state_message_received(sc, m))
    /\ entity = "object_occupancy" =>
        \A m \in AttributeUpdateMsgs :
            FailsFilter(m, "classification", TRUE, occ.cam_name, TRUE, attribute_models)
            => NoEffect(occ, ObjectOccupancy_attribute_message_received(occ, m))
    /\ entity = "sublabel_occupancy" =>
        \A m \in SublabelUpdateMsgs :
            FailsFilter(m, "classification", TRUE, so.cam_name, TRUE, {model_key})
            => NoEffect(so, SublabelOccupancy_state_message_received(so, m))
    /\ entity = "recognized_face" =>
        \A m \in FaceUpdateMsgs :
            FailsFilter(m, "face", TRUE, dk.cam_name, FALSE, {})
            => NoEffect(World, RecognizedFace_state_message_received(World, m))
    /\ entity = "recognized_plate" =>
        \A m \in PlateUpdateMsgs :
            FailsFilter(m, "lpr", TRUE, dk.cam_name, FALSE, {})
            => NoEffect(World, RecognizedPlate_state_message_received(World, m))
    /\ entity = "object_classification" =>
        \A m \in ClassUpdateMsgs :
            FailsFilter(m, "classification", TRUE, dk.actual_cam_name, TRUE, {model_key})
            => NoEffect(World, ObjectClassification_state_message_received(World, m))
    /\ entity = "global_face" =>
        \A m \in FaceUpdateMsgs :
            FailsFilter(m, "face", FALSE, NONE, FALSE, {})
            => NoEffect(gl, GlobalFace_state_message_received(gl, m))
    /\ entity = "global_plate" =>
        \A m \in PlateUpdateMsgs :
            FailsFilter(m, "lpr", FALSE, NONE, FALSE, {})
            => NoEffect(gl, GlobalPlate_state_message_received(gl, m))
    /\ entity = "global_object_classification" =>
        \A m \in ClassUpdateMsgs :
            FailsFilter(m, "classification", FALSE, NONE, TRUE, {model_key})
            => NoEffect(gl, GlobalObjectClassification_state_message_received(gl, m))

\* the object classification sensor has just dropped a classification
\* message of another model while it showed "Delivery Person" with its
\* callback pending
C17_Witness ==
    /\ entity = "object_classification"
    /\ last.handler = "state" /\ last.exit = "model"
    /\ last.notified = 0 /\ ~last.changed
    /\ dk.state = "Delivery Person"
    /\ \E t \in DOMAIN timers : dk.clear_state_callable = {t}

-----------------------------------------------------------------------------
(* C18 *)

\* the values of current_zones
ZoneValues == {ZonesAbsent, ZonesNull} \cup ZoneLists

\* the decoded messages of both topics of the object classification sensor,
\* each with the result of its handler in the current state
ClassResults ==
    {[msg |-> m, r |-> ObjectClassification_state_message_received(World, m)] :
        m \in {x \in ClassUpdateMsgs : x.shape = "object"}}
    \cup {[msg |-> m, r |-> ObjectClassification_event_message_received(World, m)] :
            m \in DecodedEvents(ClassEventMsgs)}

\* the result of the handler of the topic of x.msg for the same message with
\* current_zones = z
WithZones(x, z) ==
    LET m == [x.msg EXCEPT !.current_zones = z]
    IN  IF "after_shape" \in DOMAIN m
        THEN ObjectClassification_event_message_received(World, m)
        ELSE ObjectClassification_state_message_received(World, m)

\* C18: a zone-scoped FrigateObjectClassificationSensor accepts a
\* classification message or a lifecycle event only if its camera is the
\* zone's camera and its current_zones list contains the zone; a message of
\* that camera whose current_zones is missing or does not contain the zone
\* changes nothing.  The camera-scoped sensor of the same camera handles a
\* message in the same way whatever its current_zones.
C18_ZoneSensorNeedsZone ==
    entity = "object_classification" =>
        \A x \in ClassResults :
            IF dk.cam_or_zone_name # dk.actual_cam_name
            THEN /\ x.r.exit = "set" =>
                       /\ x.msg.camera = cam_name
                       /\ x.msg.current_zones.shape = "list"
                       /\ zone_name \in x.msg.current_zones.zones
                 /\ (/\ x.msg.camera = cam_name
                     /\ x.msg.current_zones.shape \in {"absent", "list"}
                     /\ zone_name \notin x.msg.current_zones.zones)
                    => NoEffect(World, x.r)
            ELSE \A z \in ZoneValues : WithZones(x, z) = x.r

\* the sensor of the zone has just accepted a lifecycle event of the zone's
\* camera whose current_zones contains the zone
C18_Witness ==
    /\ entity = "object_classification"
    /\ dk.cam_or_zone_name = zone_name /\ dk.actual_cam_name = cam_name
    /\ last.handler = "event" /\ last.exit = "set" /\ last.old = "Unknown"
    /\ dk.state = "Delivery Person"

-----------------------------------------------------------------------------
(* C19 *)

\* the message, of an object that is in the zone zone_name
InZone(msg) ==
    [k \in DOMAIN msg \cup {"current_zones"} |->
        IF k = "current_zones" THEN ZoneList({zone_name}) ELSE msg[k]]

\* C19: a FrigateObjectCountSensor or FrigateSublabelCountSensor created for
\* a zone accepts an attribution message of the zone's camera for an object
\* whose current_zones contains the zone: afterwards the object is tracked
\* with the attributed value and the entity was notified.
C19_ZoneCountAcceptsInZone ==
    /\ (entity = "zone_object_count" /\ oc.cam_name = zone_name) =>
        \A m \in AttributeUpdateMsgs :
            (/\ m.shape = "object" /\ m.type = "classification"
             /\ m.camera = cam_name /\ m.model \in attribute_models
             /\ m.attribute \in Attributes /\ m.id \in ObjectIds) =>
                LET r == ObjectCount_attribute_message_received(oc, InZone(m))
                IN  /\ DictGet(r.s.tracked_object_attributes, m.id) = m.attribute
                    /\ r.notified = 1
    /\ (entity = "zone_sublabel_count" /\ sc.cam_name = zone_name) =>
        \A m \in SublabelUpdateMsgs :
            (/\ m.shape = "object" /\ m.type = "classification"
             /\ m.camera = cam_name /\ m.model = model_key
             /\ m.sub_label \in Sublabels /\ m.id \in ObjectIds) =>
                LET r == SublabelCount_state_message_received(sc, InZone(m))
                IN  /\ DictGet(r.s.tracked_objects, m.id) = m.sub_label
                    /\ r.notified = 1

-----------------------------------------------------------------------------
(* C20 *)

\* the decoded messages the global sensor under test can receive, each with
\* the result of its handler in the current state and with `named`: the
\* message has the sensor's type and names the sensor's bound value
GlobalResults ==
    IF entity = "global_face"
    THEN {[msg |-> m, r |-> GlobalFace_state_message_received(gl, m),
           named |-> Get(m.type) = "face" /\ Get(m.name) = face_name] :
            m \in {x \in FaceUpdateMsgs : x.shape = "object"}}
    ELSE IF entity = "global_plate"
    THEN {[msg |-> m, r |-> GlobalPlate_state_message_received(gl, m),
           named |-> Get(m.type) = "lpr" /\ Get(m.name) = plate_name] :
            m \in {x \in PlateUpdateMsgs : x.shape = "object"}}
    ELSE IF entity = "global_object_classification"
    THEN {[msg |-> m,
           r |-> GlobalObjectClassification_state_message_received(gl, m),
           named |-> /\ Get(m.type) = "classification"
                     /\ Get(m.model) = model_key
                     /\ detected_class(m) = class_name] :
            m \in {x \in ClassUpdateMsgs : x.shape = "object"}}
    ELSE {}

\* C20: a global sensor (face, plate, object classification) applies no camera
\* filter: a message of its type that names its bound value (name, or model
\* and class) and has a non-empty camera sets the value to the display name of
\* that camera, whichever camera it is, with one notification; a message that
\* names another value, or whose camera is missing or empty, leaves the value
\* unchanged and notifies nobody.
C20_GlobalRecordsSourceCamera ==
    \A x \in GlobalResults :
        LET camera == Get(x.msg.camera)
        IN  /\ (x.named /\ camera \in Cameras) =>
                /\ x.r.s.state = get_friendly_name(camera)
                /\ x.r.notified = 1
                /\ ~x.r.raised
            /\ (~x.named \/ camera \notin Cameras) =>
                /\ NoEffect(gl, x.r)
                /\ ~x.r.raised

\* the global face sensor, showing the entity's own camera, has just moved to
\* another camera
C20_Witness ==
    /\ entity = "global_face"
    /\ last.exit = "set"
    /\ last.old = get_friendly_name(cam_name)
    /\ gl.state = get_friendly_name("other_camera")

-----------------------------------------------------------------------------
(* C21 *)

\* C21: no message handler raises: for every payload the recognized-face and
\* the recognized-plate handler receive (text that is not JSON, JSON that is
\* not an object, a face message without "name", an lpr message with neither
\* "name" nor "plate") the handler returns normally.
C21_NoHandlerRaises ==
    /\ entity = "recognized_face" =>
        \A m \in FaceUpdateMsgs :
            ~RecognizedFace_state_message_received(World, m).raised
    /\ entity = "recognized_plate" =>
        \A m \in PlateUpdateMsgs :
            ~RecognizedPlate_state_message_received(World, m).raised

-----------------------------------------------------------------------------
(* C22 *)

\* the texts of IntPayloads that int() rejects
MalformedCounts == {p \in IntPayloads : ~PyInt(p).ok}

\* C22: a payload that is malformed for its topic (a text that is no integer
\* on a count topic, text that is not JSON on tracked_object_update) is
\* ignored by the entity that receives it: no field of the entity changes and
\* no notification is emitted.
C22_MalformedPayloadIgnored ==
    /\ entity \in ObjectCountEntities =>
        /\ \A p \in MalformedCounts :
              NoEffect(oc, ObjectCount_state_message_received(oc, p))
        /\ NoEffect(oc, ObjectCount_attribute_message_received(
                            oc, BadUpdateMsg("not_json")))
    /\ entity \in SublabelCountEntities =>
        NoEffect(sc, SublabelCount_state_message_received(
                         sc, BadUpdateMsg("not_json")))
    /\ entity = "object_occupancy" =>
        /\ \A p \in MalformedCounts :
              NoEffect(occ, ObjectOccupancy_state_message_received(occ, p))
        /\ NoEffect(occ, ObjectOccupancy_attribute_message_received(
                             occ, BadUpdateMsg("not_json")))
    /\ entity = "sublabel_occupancy" =>
        NoEffect(so, SublabelOccupancy_state_message_received(
                         so, BadUpdateMsg("not_json")))

-----------------------------------------------------------------------------
(* C23 *)

\* the models whose classes the routine requests
Configured(site) ==
    IF site = "global" THEN setup.config.object_config
    ELSE IF site = "sublabel" /\ ~setup.config.enable_sublabel_sensors THEN {}
    ELSE setup.config.sublabel_models

\* the platform the routine belongs to
PlatformOf(site) == IF site = "occupancy" THEN "binary_sensor" ELSE "sensor"

\* no entity exists for a model whose request failed in the routine; a
\* platform that has registered holds its static entities, has requested the
\* classes of every configured model and holds one entity per class of every
\* model whose request succeeded
SetupSafe ==
    entity = "setup" =>
        /\ \A f \in setup.failed :
              ~\E e \in setup.entities : e.kind = f[1] /\ e.m = f[2]
        /\ \A site \in Sites :
              PlatformOf(site) \in setup.registered =>
                  /\ Entity(PlatformOf(site), "static", NONE, NONE) \in setup.entities
                  /\ \A m \in Configured(site) :
                        /\ setup.requests[site][m] = 1
                        /\ <<site, m>> \notin setup.failed =>
                              \A c \in ClassesOf(m) :
                                  Entity(PlatformOf(site), site, m, c) \in setup.entities

\* C23: during setup a failed request for the classes of one model key
\* creates no dynamic entity for that key in the routine that asked, and
\* prevents neither the entities of the other model keys nor the static
\* entities; each platform reaches async_add_entities.
C23_FailedFetchSkipsOnlyItsModel ==
    /\ []SetupSafe
    /\ (entity = "setup") ~> (setup.registered = {"sensor", "binary_sensor"})

\* both platforms have registered; the request of _create_sublabel_sensors
\* for the first model failed, the entities of the other model and the
\* global and occupancy entities of the first model exist
C23_Witness ==
    /\ entity = "setup"
    /\ setup.registered = {"sensor", "binary_sensor"}
    /\ setup.failed = {<<"sublabel", model_key>>}
    /\ Entity("sensor", "sublabel", "dog_breed", "poodle") \in setup.entities
    /\ Entity("sensor", "global", model_key, sublabel_class) \in setup.entities
    /\ Entity("binary_sensor", "occupancy", model_key, sublabel_class) \in setup.entities
    /\ ~\E e \in setup.entities : e.kind = "sublabel" /\ e.m = model_key

-----------------------------------------------------------------------------
(* C24 *)

\* the requests made for the classes of model m during this startup
RequestsFor(m) ==
    setup.requests["global"][m] + setup.requests["sublabel"][m]
    + setup.requests["occupancy"][m]

\* C24: during one startup the classes of a model key are requested from the
\* backend at most once, and exactly once when setup has finished; a failed
\* request is not followed by another request for the same key.
C24_OneRequestPerModelKey ==
    entity = "setup" =>
        \A m \in ModelKeys :
            /\ RequestsFor(m) <= 1
            /\ (/\ setup.registered = {"sensor", "binary_sensor"}
                /\ m \in setup.config.object_config \cup setup.config.sublabel_models)
               => RequestsFor(m) = 1

-----------------------------------------------------------------------------
(* C25 *)

\* the stored values that are "unknown" or "unavailable" in some letter case
UnknownTexts == {"unknown", "Unknown", "UNKNOWN", "unavailable", "Unavailable"}

\* C25: on restart FrigateClassificationSensor takes the stored last value as
\* its value only if one exists, is non-empty and is not "unknown" or
\* "unavailable" in any letter case; otherwise the value stays "Unknown" and
\* the restore step notifies nobody.  After the restore a non-empty payload
\* replaces the value and an empty payload leaves it unchanged.
C25_RestoreUnlessUnknown ==
    entity = "classification" =>
        IF ~cls.added
        THEN LET r == Classification_async_added_to_hass(cls)
                 v == cls.last_sensor_data
             IN  IF v \notin {ABSENT, NONE, EMPTY} \cup UnknownTexts
                 THEN r.s.state = v
                 ELSE r.s.state = "Unknown" /\ r.notified = 0
        ELSE \A p \in ClassificationPayloads :
                LET r == Classification_state_message_received(cls, p)
                IN  IF p # EMPTY
                    THEN r.s.state = p
                    ELSE r.s.state = cls.state /\ r.notified = 0

\* the sensor restored "Resident" after the restart and a payload has just
\* replaced it
C25_Witness ==
    /\ entity = "classification"
    /\ cls.last_sensor_data = "Resident"
    /\ last.handler = "state" /\ last.old = "Resident" /\ last.exit = "set"
    /\ cls.state = "visitor"

-----------------------------------------------------------------------------
(* C26 *)

\* C26: FrigateObjectOccupancySensor is On exactly when the last count
\* received on its primary topic is greater than zero: after the count p the
\* sensor is On iff p > 0, it stays so until the next count (a payload that
\* is no count does not change it), and no message of tracked_object_update
\* changes the On/Off value.
C26_OnIffLastCountPositive ==
    entity = "object_occupancy" =>
        /\ \A p \in IntPayloads \ MalformedCounts :
              LET r == ObjectOccupancy_state_message_received(occ, p)
              IN  /\ r.s.is_on = (PyInt(p).value > 0)
                  /\ \A q \in MalformedCounts :
                        ObjectOccupancy_state_message_received(r.s, q).s.is_on
                            = r.s.is_on
        /\ \A m \in AttributeUpdateMsgs :
              ObjectOccupancy_attribute_message_received(occ, m).s.is_on = occ.is_on

-----------------------------------------------------------------------------
(* C27 *)

\* C27: in FrigateSublabelOccupancySensor the tracked set holds exactly the
\* object ids whose latest accepted classification (entity's camera and
\* model) is the entity's sublabel, and the sensor is On iff the set is not
\* empty.  By induction over the accepted messages: the set is empty before
\* the first one; after an accepted message the object of the message is in
\* the set iff its sublabel is the entity's, and every other object is in the
\* set iff it was before.
C27_TrackedSetIsLatestSublabel ==
    entity = "sublabel_occupancy" =>
        /\ last.handler = "init" => so.tracked_objects = {}
        /\ so.is_on = (so.tracked_objects # {})
        /\ \A m \in SublabelUpdateMsgs :
              LET r == SublabelOccupancy_state_message_received(so, m)
              IN  r.exit = "set" =>
                    /\ (m.id \in r.s.tracked_objects) = (m.sub_label = sublabel_class)
                    /\ \A j \in ObjectIds \ {m.id} :
                          (j \in r.s.tracked_objects) = (j \in so.tracked_objects)
                    /\ r.s.tracked_objects \subseteq ObjectIds
                    /\ r.s.is_on = (r.s.tracked_objects # {})

\* the only object of the set has just been classified as another sublabel:
\* the set is empty and the sensor is Off
C27_Witness ==
    /\ entity = "sublabel_occupancy"
    /\ last.exit = "set" /\ last.old = sublabel_class /\ last.changed
    /\ so.tracked_objects = {}
    /\ ~so.is_on

-----------------------------------------------------------------------------
(* C28 *)

\* the end-of-track event of object i on the entity's camera and label
EndOfTrack(i) == EventMsg(cam_name, obj_name, i, "1700000000", AttrList(<<>>))

\* C28: in the binary occupancy entities an object whose track has ended no
\* longer contributes: after its end-of-track event the object is not in the
\* tracked set of FrigateSublabelOccupancySensor (the sensor is Off once the
\* set is empty), and in FrigateObjectOccupancySensor the object is no longer
\* tracked and the count of its attribute is one lower.
C28_EndedObjectLeavesOccupancy ==
    /\ entity = "sublabel_occupancy" =>
        \A i \in so.tracked_objects :
            LET r == SublabelOccupancy_event_delivery(so, EndOfTrack(i))
            IN  /\ i \notin r.s.tracked_objects
                /\ r.s.is_on = (r.s.tracked_objects # {})
    /\ entity = "object_occupancy" =>
        \A i \in DOMAIN occ.tracked_object_attributes :
            LET r == ObjectOccupancy_event_delivery(occ, EndOfTrack(i))
                a == occ.tracked_object_attributes[i]
            IN  /\ i \notin DOMAIN r.s.tracked_object_attributes
                /\ r.s.attribute_counts[a] = occ.attribute_counts[a] - 1

-----------------------------------------------------------------------------
(* C29 *)

\* the value and the auxiliary attributes the count entity exposes
Exposed(s) == <<s.state, s.attribute_counts>>

\* C29: every handler step or decay-callback step that changes the entity's
\* value or its auxiliary attributes (the attribute counts) has notified by
\* the time the step ends.
C29_ChangeIsNotified ==
    /\ entity \in ObjectCountEntities =>
        /\ \A m \in AttributeUpdateMsgs :
              LET r == ObjectCount_attribute_message_received(oc, m)
              IN  Exposed(r.s) # Exposed(oc) => r.notified >= 1
        /\ \A m \in AttributeEventMsgs :
              LET r == ObjectCount_event_message_received(oc, m)
              IN  Exposed(r.s) # Exposed(oc) => r.notified >= 1
        /\ \A p \in IntPayloads :
              LET r == ObjectCount_state_message_received(oc, p)
              IN  Exposed(r.s) # Exposed(oc) => r.notified >= 1
    /\ entity \in SublabelCountEntities =>
        /\ \A m \in SublabelUpdateMsgs :
              LET r == SublabelCount_state_message_received(sc, m)
              IN  r.s.state # sc.state => r.notified >= 1
        /\ \A m \in SublabelEventMsgs :
              LET r == SublabelCount_event_message_received(sc, m)
              IN  r.s.state # sc.state => r.notified >= 1
    /\ entity \in DecayingEntities =>
        /\ \A x \in DecayingResults :
              x.r.s.self.state # dk.state => x.r.notified >= 1
        /\ \A t \in DOMAIN timers :
              LET r == clear_state([self |-> dk, timers |-> Cancel(timers, {t})])
              IN  r.s.self.state # dk.state => r.notified >= 1

-----------------------------------------------------------------------------
(* C30 *)

\* the count entity after the message, of either topic
AfterMessage(s, msg) ==
    IF "after_shape" \in DOMAIN msg
    THEN ObjectCount_event_message_received(s, msg).s
    ELSE ObjectCount_attribute_message_received(s, msg).s

\* the count entity after the first n messages of the sequence
RECURSIVE DeliverAll(_, _, _)
DeliverAll(s, msgs, n) ==
    IF n = 0 THEN s ELSE AfterMessage(DeliverAll(s, msgs, n - 1), msgs[n])

\* the orders in which three messages are delivered, one of them possibly
\* twice
Orders == {f \in [1..3 -> 1..3] \cup [1..4 -> 1..3] : {f[k] : k \in DOMAIN f} = 1..3}

\* C30: delivery order does not matter: once the direct attribution, the
\* lifecycle attribution and the end-of-track event of an object have all
\* been delivered, in any order and with any duplication, the object is
\* absent from the tracker and the count of its value is what it was without
\* the object.
C30_AnyOrderEndsUntracked ==
    entity = "object_count" =>
        \A i \in ObjectIds \ DOMAIN Tracker, M \in attribute_models, V \in Attributes :
            LET msgs == <<DirectMsg(i, M, V), EventMsgOf(i, M, V), EndOfTrack(i)>>
            IN  \A f \in Orders :
                    LET final == DeliverAll(oc, [k \in DOMAIN f |-> msgs[f[k]]], Len(f))
                    IN  /\ i \notin DOMAIN final.tracked_object_attributes
                        /\ DictGet0(final.attribute_counts, V) = DictGet0(Counts, V)

-----------------------------------------------------------------------------
(* C31 *)

\* the end-of-track event of object i, an object of label l on the entity's
\* camera
EndOfTrackOf(i, l) == EventMsg(cam_name, l, i, "1700000000", AttrList(<<>>))

\* C31: the tracker holds only live objects: an object of the entity's camera
\* (of the entity's label or of another label that shares the classification
\* model) that was attributed and whose end-of-track event has then been
\* delivered is not in the tracker, so the tracker has at most as many entries
\* as there are objects whose end-of-track event is still to come.
C31_TrackerHoldsOnlyLiveObjects ==
    /\ entity = "object_count" =>
        \A i \in ObjectIds \ DOMAIN Tracker, l \in Labels,
           M \in attribute_models, V \in Attributes :
            LET s1 == ObjectCount_attribute_message_received(oc, DirectMsg(i, M, V)).s
                s2 == ObjectCount_event_message_received(s1, EndOfTrackOf(i, l)).s
            IN  /\ i \notin DOMAIN s2.tracked_object_attributes
                /\ Cardinality(DOMAIN s2.tracked_object_attributes)
                       <= Cardinality(DOMAIN Tracker)
    /\ entity = "sublabel_count" =>
        \A i \in ObjectIds \ DOMAIN sc.tracked_objects, l \in Labels, V \in Sublabels :
            LET s1 == SublabelCount_state_message_received(
                          sc, UpdateMsg("classification", cam_name, model_key, NONE, V, i)).s
                s2 == SublabelCount_event_message_received(s1, EndOfTrackOf(i, l)).s
            IN  /\ i \notin DOMAIN s2.tracked_objects
                /\ Cardinality(DOMAIN s2.tracked_objects)
                       <= Cardinality(DOMAIN sc.tracked_objects)

-----------------------------------------------------------------------------
(* C32 *)

\* C32: in every reachable state of FrigateSublabelCountSensor the state is
\* the number of tracker entries whose value is the bound sublabel class; an
\* accepted classification records the sublabel it carries for its object,
\* the bound class or another one, and a classification that moves a
\* tracked object from the bound class to another sublabel lowers the state
\* by one.
C32_StateCountsBoundSublabel ==
    entity \in SublabelCountEntities =>
        /\ sc.state = Cardinality({i \in DOMAIN sc.tracked_objects :
                                       sc.tracked_objects[i] = sublabel_class})
        /\ \A i \in ObjectIds, V \in Sublabels :
              LET direct == SublabelCount_state_message_received(
                                sc, UpdateMsg("classification", sc.cam_name,
                                              model_key, NONE, V, i))
                  event  == SublabelCount_event_message_received(
                                sc, EventMsg(sc.cam_name, obj_name, i, NONE,
                                             AttrList(<<AttrItem(model_key, NONE, V)>>)))
              IN  \A r \in {direct, event} :
                    /\ r.notified = 1
                    /\ i \in DOMAIN r.s.tracked_objects
                    /\ r.s.tracked_objects[i] = V
                    /\ (/\ i \in DOMAIN sc.tracked_objects
                        /\ sc.tracked_objects[i] = sublabel_class
                        /\ V # sublabel_class) => r.s.state = sc.state - 1

\* a tracked object of the bound class has just been reclassified to another
\* sublabel, next to an object that keeps the bound class
C32_Witness ==
    /\ entity = "sublabel_count"
    /\ last.handler = "attribute" /\ last.exit = "set"
    /\ last.old = sublabel_class
    /\ sc.state = 1
    /\ Cardinality(DOMAIN sc.tracked_objects) = 2

-----------------------------------------------------------------------------
(* C33 *)

\* what the handlers of FrigateObjectCountSensor do to the primary count and
\* to the attribute tracking, from the current state
PrimaryCountIndependent ==
    entity \in ObjectCountEntities =>
        /\ \A p \in IntPayloads :
              LET r == ObjectCount_state_message_received(oc, p)
              IN  /\ r.s.tracked_object_attributes = oc.tracked_object_attributes
                  /\ r.s.attribute_counts = oc.attribute_counts
                  /\ r.s.state = IF PyInt(p).ok THEN PyInt(p).value ELSE oc.state
        /\ \A m \in AttributeUpdateMsgs :
              ObjectCount_attribute_message_received(oc, m).s.state = oc.state
        /\ \A m \in AttributeEventMsgs :
              ObjectCount_event_message_received(oc, m).s.state = oc.state

\* C33: the primary count of FrigateObjectCountSensor and its attribute
\* tracking are independent: the count is 0 at first, a message on the count
\* topic sets the count to its integer payload (leaves it when the payload is
\* no integer) and leaves tracker and attribute counts as they are, and a
\* step that handles a tracked_object_update or a lifecycle message leaves
\* the count as it is; so the count is the last integer payload of its topic.
C33_PrimaryCountIsLastPayload ==
    /\ (entity \in ObjectCountEntities => oc.state = 0)
    /\ []PrimaryCountIndependent
    /\ [][(entity \in ObjectCountEntities /\ last'.handler # "state")
              => oc'.state = oc.state]_vars

\* a count has just arrived while an object is tracked with an attribute
C33_Witness ==
    /\ entity = "object_count"
    /\ last.handler = "state" /\ last.exit = "count"
    /\ oc.state = 2
    /\ DOMAIN oc.tracked_object_attributes = {"o1"}
    /\ DOMAIN oc.attribute_counts # {}

-----------------------------------------------------------------------------
(* C34 *)

\* tracker t2 is tracker t1, or t1 without object id i
OnlyRemoves(t1, t2, i) ==
    /\ DOMAIN t2 \subseteq DOMAIN t1
    /\ DOMAIN t1 \ DOMAIN t2 \subseteq {i}
    /\ \A j \in DOMAIN t2 : t2[j] = t1[j]

\* no attribute count of c2 is new or higher than in c1
NoCountRaised(c1, c2) ==
    \A K \in DOMAIN c2 : K \in DOMAIN c1 /\ c2[K] <= c1[K]

\* C34: a lifecycle event whose end_time is not null never adds or changes
\* an attribution of a count entity, whatever current_attributes it carries:
\* after it the tracker is the tracker before it, or that tracker without
\* the event's object id, no attribute count is new or higher, and the
\* state of the sublabel count is not higher.
C34_EndedEventOnlyRemoves ==
    /\ entity \in ObjectCountEntities =>
        \A m \in AttributeEventMsgs :
            m.end_time # NONE =>
                LET r == ObjectCount_event_message_received(oc, m)
                IN  /\ OnlyRemoves(oc.tracked_object_attributes,
                                   r.s.tracked_object_attributes, m.id)
                    /\ NoCountRaised(oc.attribute_counts, r.s.attribute_counts)
    /\ entity \in SublabelCountEntities =>
        \A m \in SublabelEventMsgs :
            m.end_time # NONE =>
                LET r == SublabelCount_event_message_received(sc, m)
                IN  /\ OnlyRemoves(sc.tracked_objects, r.s.tracked_objects, m.id)
                    /\ r.s.state <= sc.state

\* o1 is tracked as "standing"; its end-of-track event that carries a record
\* "walking" of a tracked model removes it
C34_Witness ==
    /\ entity = "object_count"
    /\ "o1" \in DOMAIN oc.tracked_object_attributes
    /\ oc.tracked_object_attributes["o1"] = "standing"
    /\ LET m == EventMsg(cam_name, obj_name, "o1", "1700000000",
                         AttrList(<<AttrItem("person_orientation", "walking", NONE)>>))
           r == ObjectCount_event_message_received(oc, m)
       IN  /\ m \in AttributeEventMsgs
           /\ r.exit = "cleared"
           /\ "o1" \notin DOMAIN r.s.tracked_object_attributes

-----------------------------------------------------------------------------
(* C35 *)

\* the positions of the records of items that are an object, name a model of
\* TrackedModels and carry a non-empty value
QualifyingAttribute(items) ==
    {k \in 1..Len(items) : /\ items[k].dict
                           /\ items[k].model \in attribute_models
                           /\ Truthy(items[k].attribute)}

QualifyingSublabel(items) ==
    {k \in 1..Len(items) : /\ items[k].dict
                           /\ items[k].model = model_key
                           /\ Truthy(items[k].sub_label)}

First(Q) == CHOOSE k \in Q : \A j \in Q : k <= j

\* C35: an active lifecycle event (end_time null) with several
\* current_attributes records makes a count entity apply the first record,
\* in list order, that is an object, names a tracked model and has a
\* non-empty attribute (sub_label for the sublabel count): the tracker holds
\* that record's value for the event's object, whatever later records say,
\* and exactly one notification is emitted; when no record qualifies nothing
\* changes and no notification is emitted.
C35_FirstQualifyingRecordApplied ==
    /\ entity = "object_count" =>
        \A i \in ObjectIds, items \in SeqsUpTo(AttributeItems, MaxAttrs) :
            LET r == ObjectCount_event_message_received(oc, ActiveEvent(i, items))
                Q == QualifyingAttribute(items)
            IN  IF Q = {} THEN NoEffect(oc, r)
                ELSE /\ r.notified = 1
                     /\ r.s.tracked_object_attributes =
                            DictSet(oc.tracked_object_attributes, i,
                                    items[First(Q)].attribute)
    /\ entity = "sublabel_count" =>
        \A i \in ObjectIds, items \in SeqsUpTo(SublabelItems, MaxAttrs) :
            LET r == SublabelCount_event_message_received(sc, ActiveEvent(i, items))
                Q == QualifyingSublabel(items)
            IN  IF Q = {} THEN NoEffect(sc, r)
                ELSE /\ r.notified = 1
                     /\ r.s.tracked_objects =
                            DictSet(sc.tracked_objects, i, items[First(Q)].sub_label)

-----------------------------------------------------------------------------
(* C36 *)

\* the exits of a decaying handler at a failed filter: wrong type, camera,
\* zone or model, or neither sub_label nor attribute
FilterExits == {"type", "camera", "zone", "model", "value"}

\* C36: a message that a decaying sensor filters out (wrong type, camera,
\* zone or model, or no sub_label / attribute field) neither cancels nor
\* reschedules the pending decay callback: the pending callbacks, their due
\* times and the stored callable are the same after the handler as before,
\* and the pending callback stays due 60 seconds after the latest accepted
\* observation.
C36_FilteredLeavesDecayPending ==
    entity \in DecayingEntities =>
        /\ \A x \in DecayingResults :
              x.r.exit \in FilterExits =>
                  /\ x.r.s.timers = timers
                  /\ x.r.s.self.clear_state_callable = dk.clear_state_callable
                  /\ x.r.notified = 0
        /\ (last.handler = "state" /\ last.exit \in FilterExits /\ latest.seen) =>
              \A t \in DOMAIN timers : timers[t] = DecayDelay - latest.age

\* the face sensor has just dropped a message of another camera, part of
\* the delay after its latest accepted observation: the callback is pending
C36_Witness ==
    /\ entity = "recognized_face"
    /\ last.handler = "state" /\ last.exit = "camera"
    /\ latest.seen /\ latest.age > 0 /\ latest.age < DecayDelay
    /\ \E t \in DOMAIN timers :
          /\ timers[t] = DecayDelay - latest.age
          /\ dk.clear_state_callable = {t}

-----------------------------------------------------------------------------
(* C37 *)

\* C37: in every reachable state of a decaying sensor the stored callable is
\* non-empty if and only if a decay callback is pending, and it is the
\* callable of a pending callback; hence every handler that invokes the
\* stored callable cancels a callback that has neither fired nor been
\* cancelled before.
C37_HandleIffCallbackPending ==
    entity \in DecayingEntities =>
        /\ (dk.clear_state_callable # {}) <=> (timers # NoTimers)
        /\ dk.clear_state_callable \subseteq DOMAIN timers
        /\ \A x \in DecayingResults :
              (x.r.s.self.clear_state_callable # {}) <=> (x.r.s.timers # NoTimers)

\* the callback of the object classification sensor has fired and, after
\* that, an observation has been accepted: no stale callable was left for
\* that handler to invoke
C37_Witness ==
    /\ entity = "object_classification"
    /\ last.handler = "state" /\ last.exit = "set" /\ last.old = IdleSentinel
    /\ dk.clear_state_callable # {}
    /\ dk.clear_state_callable = DOMAIN timers

-----------------------------------------------------------------------------
(* C38 *)

\* the tracked_object_update message m passes every filter of a
\* set-attribution handler bound to camera c and models ms: it is accepted
AcceptedUpdate(m, c, ms, value) ==
    /\ m.shape = "object"
    /\ m.type = "classification"
    /\ m.camera = c
    /\ m.model \in ms
    /\ Truthy(value)
    /\ Truthy(m.id)

\* the lifecycle event m passes the after, camera, label and id filters of a
\* count entity bound to camera c
PassesEventFilters(m, c) ==
    /\ m.shape = "object" /\ m.after_shape = "object"
    /\ m.camera = c
    /\ m.label = obj_name
    /\ Truthy(m.id)

\* the event m, which passes the filters, is an end-of-track event for an
\* object in tracker, or an active event with a qualifying record at one of
\* the positions Q
AcceptedEvent(m, tracker, Q) ==
    IF m.end_time # NONE
    THEN Hashable(m.id) /\ m.id \in DOMAIN tracker
    ELSE m.current_attributes.shape = "list" /\ Q # {}

\* C38: every accepted set-attribution emits exactly one notification, also
\* when it re-asserts the value the object already holds; a message emits no
\* notification only when it is filtered out or is an end-of-track event for
\* an object that is not tracked.
C38_AcceptedAttributionNotifiesOnce ==
    /\ entity \in ObjectCountEntities =>
        /\ \A m \in AttributeUpdateMsgs :
              LET r == ObjectCount_attribute_message_received(oc, m)
              IN  r.notified =
                    IF AcceptedUpdate(m, oc.cam_name, attribute_models, m.attribute)
                    THEN 1 ELSE 0
        /\ \A m \in AttributeEventMsgs :
              LET r == ObjectCount_event_message_received(oc, m)
              IN  r.notified =
                    IF /\ PassesEventFilters(m, oc.cam_name)
                       /\ AcceptedEvent(m, oc.tracked_object_attributes,
                                        QualifyingAttribute(m.current_attributes.items))
                    THEN 1 ELSE 0
    /\ entity \in SublabelCountEntities =>
        /\ \A m \in SublabelUpdateMsgs :
              LET r == SublabelCount_state_message_received(sc, m)
              IN  r.notified =
                    IF AcceptedUpdate(m, sc.cam_name, {model_key}, m.sub_label)
                    THEN 1 ELSE 0
        /\ \A m \in SublabelEventMsgs :
              LET r == SublabelCount_event_message_received(sc, m)
              IN  r.notified =
                    IF /\ PassesEventFilters(m, sc.cam_name)
                       /\ AcceptedEvent(m, sc.tracked_objects,
                                        QualifyingSublabel(m.current_attributes.items))
                    THEN 1 ELSE 0
    /\ entity = "sublabel_occupancy" =>
        \A m \in SublabelUpdateMsgs :
            LET r == SublabelOccupancy_state_message_received(so, m)
            IN  r.notified =
                  IF AcceptedUpdate(m, so.cam_name, {model_key}, m.sub_label)
                  THEN 1 ELSE 0

-----------------------------------------------------------------------------
(* C39 *)

\* FrigateObjectCountSensor.extra_state_attributes
extra_state_attributes(s) ==
    IF s.attribute_counts # EmptyDict THEN s.attribute_counts ELSE EmptyDict

\* every key of the attribute counts of s is a key of those of t
KeysKept(s, t) == DOMAIN s.attribute_counts \subseteq DOMAIN t.attribute_counts

\* C39: the key set of the attribute counts of FrigateObjectCountSensor never
\* shrinks: whatever message is handled, every key stays in the mapping, a
\* count lowered to zero included, and the mapping is what the entity
\* exposes as auxiliary attributes; the auxiliary attributes are empty only
\* as long as no attribution has been accepted, so they are not empty while
\* an object is tracked with an attribution.
C39_CountKeysPersist ==
    entity \in ObjectCountEntities =>
        /\ \A p \in IntPayloads :
              KeysKept(oc, ObjectCount_state_message_received(oc, p).s)
        /\ \A m \in AttributeUpdateMsgs :
              KeysKept(oc, ObjectCount_attribute_message_received(oc, m).s)
        /\ \A m \in AttributeEventMsgs :
              KeysKept(oc, ObjectCount_event_message_received(oc, m).s)
        /\ \A K \in DOMAIN oc.attribute_counts :
              /\ K \in DOMAIN extra_state_attributes(oc)
              /\ extra_state_attributes(oc)[K] = oc.attribute_counts[K]
        /\ oc.tracked_object_attributes # EmptyDict
              => extra_state_attributes(oc) # EmptyDict

-----------------------------------------------------------------------------
(* C40 *)

\* the positions of the records of items that are an object, name the bound
\* model and carry a sub_label or an attribute
QualifyingClass(items) ==
    {k \in 1..Len(items) : /\ items[k].dict
                           /\ Get(items[k].model) = model_key
                           /\ Has(items[k].sub_label) \/ Has(items[k].attribute)}

\* the value of such a record: its sub_label, or else its attribute
ClassValue(item) == IF Has(item.sub_label) THEN item.sub_label ELSE item.attribute

\* the event m is for the bound camera of the sensor and, for the sensor of
\* a zone, for an object in that zone
ForBoundCameraAndZone(m) ==
    /\ m.shape = "object" /\ m.after_shape = "object"
    /\ Get(m.camera) = dk.actual_cam_name
    /\ dk.cam_or_zone_name # dk.actual_cam_name =>
          /\ m.current_zones.shape # "null"
          /\ dk.cam_or_zone_name \in m.current_zones.zones

\* C40: FrigateObjectClassificationSensor treats a lifecycle event as an
\* observation whatever its end_time and its label: an event for the bound
\* camera (and zone) whose current_attributes has a record of the bound
\* model with a sub_label or an attribute sets the value to the first such
\* record's, notifies once and leaves one decay callback pending, due after
\* the full delay, also when end_time is not null; an event without such a
\* record changes nothing and leaves the pending callback as it was.
C40_EndedEventIsObservation ==
    entity = "object_classification" =>
        \A m \in ClassEventMsgs :
            LET r == ObjectClassification_event_message_received(World, m)
                Q == QualifyingClass(m.current_attributes.items)
            IN  IF /\ ForBoundCameraAndZone(m)
                   /\ m.current_attributes.shape = "list"
                   /\ Q # {}
                THEN /\ r.s.self.state =
                            ClassText(ClassValue(m.current_attributes.items[First(Q)]))
                     /\ r.notified = 1
                     /\ \E t \in DOMAIN r.s.timers :
                            /\ r.s.timers = [u \in {t} |-> DecayDelay]
                            /\ r.s.self.clear_state_callable = {t}
                ELSE NoEffect(World, r)

\* part of the delay after an observation has passed and the value is shown;
\* the end-of-track event of a dog of the bound camera, with a record of the
\* bound model, is accepted from here and the lifecycle handler has just
\* accepted an observation
C40_Witness ==
    /\ entity = "object_classification"
    /\ last.handler = "event" /\ last.exit = "set"
    /\ latest.age = 0
    /\ dk.state = "Standing"
    /\ LET m == ClassEventMsg(cam_name, ZoneList({zone_name}), "dog", "1700000000",
                              AttrList(<<ClassItem(model_key, "delivery_person", ABSENT)>>))
           r == ObjectClassification_event_message_received(World, m)
       IN  /\ m \in ClassEventMsgs
           /\ r.exit = "set"
           /\ r.s.self.state = "Delivery Person"
====
